---- MODULE Spec2Model ----
(***************************************************************************)
(* WinDoctor: the normalize -> decode -> correlate -> score pipeline.      *)
(*                                                                         *)
(* Event payloads, provider names and messages are real strings: the       *)
(* substring tests, the lower-casing and the two payload parsers operate   *)
(* on the characters, as the Rust code does.                               *)
(***************************************************************************)
EXTENDS Integers, Sequences, FiniteSets, TLC

(***************************************************************************)
(* Bounds of the model.                                                    *)
(***************************************************************************)
MaxEvents == 4
MaxRecords == 4
MaxBatch == 2
MaxEntries == 2
MaxOverrides == 2
MaxLines == 2
MaxHintEvents == 5
MaxScoreEvents == 3
MaxTimelineEvents == 3
MaxCauseHints == 5

(***************************************************************************)
(* String primitives (std::str).                                           *)
(***************************************************************************)
\* Option::None of a string, of a number, of an EventItem and of a pair
None == "<none>"
NoNum == -1
NoItem == [none |-> TRUE]
NoPair == <<>>

\* a panic of the Rust code, as the result of the function that panicked
Panic == "<panic>"

\* Strings are sequences of bytes.  A character outside ASCII takes two
\* bytes, written LeadByte ContByte; a str may only be sliced at a character
\* boundary, that is not in front of a ContByte.
LeadByte == "~"
ContByte == "^"

Upper == "ABCDEFGHIJKLMNOPQRSTUVWXYZ"
Lower == "abcdefghijklmnopqrstuvwxyz"

\* the least element of a non-empty set of numbers
Least(S) == CHOOSE i \in S : \A j \in S : i <= j

\* the position of character c in alphabet, from position i on; 0 when absent
IndexIn(c, alphabet, i) ==
    LET at == {k \in i..Len(alphabet) : SubSeq(alphabet, k, k) = c}
    IN  IF at = {} THEN 0 ELSE Least(at)

LowerChar(c) ==
    LET i == IndexIn(c, Upper, 1)
    IN  IF i = 0 THEN c ELSE SubSeq(Lower, i, i)

\* the characters lo..hi of s, lower-cased
RECURSIVE LowerRange(_, _, _)
LowerRange(s, lo, hi) ==
    IF lo > hi THEN ""
    ELSE IF lo = hi THEN LowerChar(SubSeq(s, lo, lo))
    ELSE LET mid == (lo + hi) \div 2
         IN  LowerRange(s, lo, mid) \o LowerRange(s, mid + 1, hi)

\* str::to_lowercase (ASCII range)
to_lowercase(s) == LowerRange(s, 1, Len(s))

\* str::find starting at position pos (1-based); 0 when absent
FindFrom(hay, needle, pos) ==
    LET at == {k \in pos..(Len(hay) - Len(needle) + 1) : SubSeq(hay, k, k + Len(needle) - 1) = needle}
    IN  IF at = {} THEN 0 ELSE Least(at)

\* str::contains
contains(hay, needle) == FindFrom(hay, needle, 1) > 0

\* str::starts_with
starts_with(s, p) == Len(s) >= Len(p) /\ SubSeq(s, 1, Len(p)) = p

ends_with(s, p) == Len(s) >= Len(p) /\ SubSeq(s, Len(s) - Len(p) + 1, Len(s)) = p

\* the rest of s from position i on
From(s, i) == SubSeq(s, i, Len(s))

RECURSIVE TrimStart(_)
TrimStart(s) == IF Len(s) > 0 /\ SubSeq(s, 1, 1) = " " THEN TrimStart(From(s, 2)) ELSE s

RECURSIVE TrimEnd(_)
TrimEnd(s) ==
    IF Len(s) > 0 /\ SubSeq(s, Len(s), Len(s)) = " " THEN TrimEnd(SubSeq(s, 1, Len(s) - 1)) ELSE s

\* str::trim
trim(s) == TrimEnd(TrimStart(s))

(***************************************************************************)
(* HashMap<String,String> as a function from its key set; insert           *)
(* overwrites.                                                             *)
(***************************************************************************)
EmptyMap == <<>>

MapInsert(m, k, v) == (k :> v) @@ m

\* m.get(k).cloned().unwrap_or_default()
GetOrDefault(m, k) == IF k \in DOMAIN m THEN m[k] ELSE ""

\* m.get(k1).or_else(|| m.get(k2)).cloned().unwrap_or_default()
GetOrElse(m, k1, k2) ==
    IF k1 \in DOMAIN m THEN m[k1] ELSE IF k2 \in DOMAIN m THEN m[k2] ELSE ""

(***************************************************************************)
(* event_xml.rs                                                            *)
(***************************************************************************)
\* the value of attribute Name in the inside of a start tag, or None
AttrName(tag) ==
    LET k == FindFrom(tag, " Name=\"", 1)
    IN  IF k = 0 THEN None
        ELSE LET after == From(tag, k + 7)
                 q     == FindFrom(after, "\"", 1)
             IN  IF q = 0 THEN None ELSE SubSeq(after, 1, q - 1)

\* the element name of the inside of a tag
TagName(tag) ==
    LET sp == FindFrom(tag, " ", 1)
    IN  IF sp = 0 THEN tag ELSE SubSeq(tag, 1, sp - 1)

\* the reader loop of event_data_pairs: one iteration per XML event; open is
\* the stack of open elements (quick_xml reports a mismatched end tag as an
\* error, which ends the loop)
RECURSIVE PairsLoop(_, _, _, _, _, _)
PairsLoop(xml, pos, in_event_data, cur_name, open, out) ==
    IF pos > Len(xml) THEN out
    ELSE
      LET lt == FindFrom(xml, "<", pos)
          textEnd == IF lt = 0 THEN Len(xml) ELSE lt - 1
          v == trim(SubSeq(xml, pos, textEnd))
          out1 == IF in_event_data /\ cur_name # None /\ v # ""
                  THEN MapInsert(out, cur_name, v) ELSE out
      IN  IF lt = 0 THEN out1
          ELSE
            LET gt == FindFrom(xml, ">", lt)
            IN  IF gt = 0 THEN out1
                ELSE
                  LET tag == SubSeq(xml, lt + 1, gt - 1)
                  IN  IF starts_with(tag, "/")
                      THEN LET name == trim(From(tag, 2))
                           IN  IF open = <<>> \/ open[Len(open)] # name THEN out1
                               ELSE PairsLoop(xml, gt + 1,
                                      IF name = "EventData" THEN FALSE ELSE in_event_data,
                                      IF name = "Data" THEN None ELSE cur_name,
                                      SubSeq(open, 1, Len(open) - 1), out1)
                      ELSE IF ends_with(tag, "/")
                      THEN PairsLoop(xml, gt + 1, in_event_data, cur_name, open, out1)
                      ELSE LET name == TagName(tag)
                           IN  PairsLoop(xml, gt + 1,
                                  IF name = "EventData" THEN TRUE ELSE in_event_data,
                                  IF name # "EventData" /\ in_event_data /\ name = "Data"
                                  THEN AttrName(tag) ELSE cur_name,
                                  Append(open, name), out1)

event_data_pairs(xml) == PairsLoop(xml, 1, FALSE, None, <<>>, EmptyMap)

RECURSIVE FallbackLoop(_, _)
FallbackLoop(rest, res) ==
    LET i == FindFrom(rest, "<Data ", 1)
    IN  IF i = 0 THEN res
        ELSE
          LET rest1 == From(rest, i + 6)
              ns == FindFrom(rest1, "Name=\"", 1)
          IN  IF ns = 0 THEN res
              ELSE
                LET after == From(rest1, ns + 6)
                    ne == FindFrom(after, "\"", 1)
                IN  IF ne = 0 THEN res
                    ELSE
                      LET name == SubSeq(after, 1, ne - 1)
                          gt == FindFrom(after, ">", ne)
                      IN  IF gt = 0 THEN res
                          ELSE
                            LET val_part == From(after, gt + 1)
                                ve == FindFrom(val_part, "</Data>", 1)
                            IN  IF ve = 0 THEN res
                                ELSE FallbackLoop(From(val_part, ve + 7),
                                       MapInsert(res, name, SubSeq(val_part, 1, ve - 1)))

event_data_pairs_fallback(xml) == FallbackLoop(xml, EmptyMap)

\* the fallback scan whatever the strict parser found
OrFallbackAlways(m, xml) == event_data_pairs_fallback(xml)

\* if m.is_empty() { event_data_pairs_fallback(xml) } else { m }
OrFallback(m, xml) == IF DOMAIN m = {} THEN event_data_pairs_fallback(xml) ELSE m

event_data_pairs_or_fallback(xml) == OrFallback(event_data_pairs(xml), xml)

(***************************************************************************)
(* device_map.rs                                                           *)
(***************************************************************************)
HexDigits == "0123456789abcdefABCDEF"
Digits == "0123456789"

\* every character of s from position i on is one of alphabet
AllIn(s, alphabet, i) == \A k \in i..Len(s) : IndexIn(SubSeq(s, k, k), alphabet, 1) > 0

\* take_hex4(s, start) with start a 0-based byte offset
\* &s[start..start+4] panics when start + 4 is not a character boundary
take_hex4(s, start) ==
    IF Len(s) < start + 4 THEN None
    ELSE IF Len(s) > start + 4 /\ SubSeq(s, start + 5, start + 5) = ContByte THEN Panic
    ELSE LET sub == SubSeq(s, start + 1, start + 4)
         IN  IF AllIn(sub, HexDigits, 1) THEN sub ELSE None

\* <<vendor, device>>, each a 4-hex-digit token or None
parse_pci_ven_dev(id_lower) ==
    LET pv == FindFrom(id_lower, "ven_", 1)
        pd == FindFrom(id_lower, "dev_", 1)
    IN  << IF pv > 0 THEN take_hex4(id_lower, (pv - 1) + 4) ELSE None,
           IF pd > 0 THEN take_hex4(id_lower, (pd - 1) + 4) ELSE None >>

classify_vendor_hex(vendor_hex) ==
    CASE vendor_hex = "10de" -> "NVIDIA GPU"
      [] vendor_hex = "1002" -> "AMD GPU"
      [] vendor_hex = "8086" -> "Intel controller/device"
      [] vendor_hex = "144d" -> "Samsung NVMe"
      [] vendor_hex = "1bb1" -> "Western Digital NVMe"
      [] vendor_hex = "1987" -> "Phison NVMe"
      [] vendor_hex = "1c5c" -> "SK hynix NVMe"
      [] vendor_hex = "1344" -> "Micron NVMe"
      [] vendor_hex = "10ec" -> "Realtek controller/device"
      [] vendor_hex = "14e4" -> "Broadcom controller/device"
      [] vendor_hex = "1b21" -> "ASMedia controller/device"
      [] vendor_hex = "197b" -> "JMicron controller/device"
      [] vendor_hex = "126f" -> "Silicon Motion NVMe"
      [] vendor_hex = "15b7" -> "SanDisk NVMe"
      [] vendor_hex = "1e0f" -> "KIOXIA NVMe"
      [] vendor_hex = "1e49" -> "Solidigm NVMe"
      [] vendor_hex = "1d97" -> "ADATA NVMe"
      [] vendor_hex = "1022" -> "AMD controller/device"
      [] OTHER -> None

\* the vendor and device tokens looked at before the prefix rules
classify_instance_id_vendor_first(id) ==
    LET id_lower == to_lowercase(id)
        vd == parse_pci_ven_dev(id_lower)
    IN  IF vd[1] = Panic \/ vd[2] = Panic THEN Panic
        ELSE IF vd[1] # None
        THEN LET cls == classify_vendor_hex(vd[1])
                 base == IF cls = None THEN "PCI device" ELSE cls
             IN  IF vd[2] # None THEN base \o " device 0x" \o vd[2] ELSE base
        ELSE IF starts_with(id_lower, "nvme\\") THEN "NVMe drive"
        ELSE IF starts_with(id_lower, "scsi\\disk") THEN "SATA/SAS disk"
        ELSE IF starts_with(id_lower, "usb\\vid_") THEN "USB device"
        ELSE IF starts_with(id_lower, "acpi\\pnp0c0b") THEN "ACPI fan"
        ELSE IF starts_with(id_lower, "acpi\\pnp0c0a") THEN "ACPI thermal zone"
        ELSE None

classify_instance_id(id) ==
    LET id_lower == to_lowercase(id)
    IN  IF starts_with(id_lower, "nvme\\") THEN "NVMe drive"
        ELSE IF starts_with(id_lower, "scsi\\disk") THEN "SATA/SAS disk"
        ELSE IF starts_with(id_lower, "usb\\vid_") THEN "USB device"
        ELSE IF starts_with(id_lower, "acpi\\pnp0c0b") THEN "ACPI fan"
        ELSE IF starts_with(id_lower, "acpi\\pnp0c0a") THEN "ACPI thermal zone"
        ELSE LET vd == parse_pci_ven_dev(id_lower)
             IN  IF vd[1] = Panic \/ vd[2] = Panic THEN Panic
                 ELSE IF vd[1] # None
                 THEN LET cls == classify_vendor_hex(vd[1])
                          base == IF cls = None THEN "PCI device" ELSE cls
                      IN  IF vd[2] # None THEN base \o " device 0x" \o vd[2] ELSE base
                 ELSE None

DigitVal(c) == IndexIn(c, Digits, 1) - 1

RECURSIVE ParseDigits(_, _, _)
ParseDigits(s, i, accum) ==
    IF i > Len(s) THEN accum
    ELSE ParseDigits(s, i + 1, accum * 10 + DigitVal(SubSeq(s, i, i)))

\* s.parse::<u32>().ok(): NoNum stands for a failed parse.  Every number of
\* up to 9 digits fits a u32; the model has no longer digit strings and
\* rejects them.
parse_u32(s) ==
    LET body == IF starts_with(s, "+") THEN From(s, 2) ELSE s
    IN  IF s = None \/ Len(body) = 0 \/ Len(body) > 9 \/ ~AllIn(body, Digits, 1) THEN NoNum
        ELSE ParseDigits(body, 1, 0)

\* bus, dev, func are Option<&str>
classify_bdf(bus, dev, func) ==
    LET b == parse_u32(bus)
        d == parse_u32(dev)
        f == parse_u32(func)
    IN  IF b >= 0 /\ d >= 0
        THEN IF b = 1 /\ d = 0 THEN "Likely discrete GPU (PEG root path)"
             ELSE IF b >= 1 /\ d <= 3 /\ f = 0 THEN "Device on CPU PCIe lanes (GPU/NVMe)"
             ELSE IF d >= 16 /\ d <= 31 THEN "PCIe root/downstream port"
             ELSE IF f = 0 /\ d <= 7 THEN "Onboard controller/device"
             ELSE None
        ELSE None

\* str::split(sep) for a one-character separator
RECURSIVE Split(_, _)
Split(s, sep) ==
    LET i == FindFrom(s, sep, 1)
    IN  IF i = 0 THEN <<s>>
        ELSE <<SubSeq(s, 1, i - 1)>> \o Split(From(s, i + 1), sep)

\* the loop over the entries of the override table; env is the value of
\* WINDOCTOR_BDF_HINTS (else WINREPORT_BDF_HINTS), or None when unset
RECURSIVE BdfOverride(_, _, _, _, _)
BdfOverride(entries, i, bus, dev, func) ==
    IF i > Len(entries) THEN None
    ELSE LET entry == entries[i]
             eq == FindFrom(entry, "=", 1)
         IN  IF eq = 0 THEN BdfOverride(entries, i + 1, bus, dev, func)
             ELSE LET parts == Split(SubSeq(entry, 1, eq - 1), ":")
                  IN  IF Len(parts) = 3 /\ bus = parts[1] /\ dev = parts[2] /\ func = parts[3]
                      THEN From(entry, eq + 1)
                      ELSE BdfOverride(entries, i + 1, bus, dev, func)

\* the heuristic asked first, the override table only when it has no answer
classify_bdf_platform_heuristic_first(env, bus, dev, func) ==
    LET guess == classify_bdf(bus, dev, func)
    IN  IF guess # None THEN guess
        ELSE IF env = None THEN None ELSE BdfOverride(Split(env, ";"), 1, bus, dev, func)

classify_bdf_platform(env, bus, dev, func) ==
    LET hit == IF env = None THEN None ELSE BdfOverride(Split(env, ";"), 1, bus, dev, func)
    IN  IF hit # None THEN hit ELSE classify_bdf(bus, dev, func)

\* <<severity, message>> or NoPair
smart_hint_from_text(text) ==
    LET t == to_lowercase(text)
    IN  IF contains(t, "smart") /\ (contains(t, "pred fail") \/ contains(t, "failed") \/ contains(t, "bad"))
        THEN <<"high", "SMART indicates predicted disk failure">>
        ELSE IF contains(t, "reallocated") \/ contains(t, "pending sector") \/ contains(t, "uncorrectable")
        THEN <<"medium", "SMART attributes suggest media degradation">>
        ELSE IF contains(t, "temperature") /\ (contains(t, "high") \/ contains(t, "overheat") \/ contains(t, "critical"))
        THEN <<"medium", "SMART reports high temperature">>
        ELSE NoPair

(***************************************************************************)
(* decoder.rs                                                              *)
(***************************************************************************)
\* a number below 100 in two digits
Pad2(n) == SubSeq(Digits, (n \div 10) + 1, (n \div 10) + 1) \o SubSeq(Digits, (n % 10) + 1, (n % 10) + 1)

\* u32 Display
RECURSIVE FormatNat(_)
FormatNat(n) ==
    IF n < 10 THEN SubSeq(Digits, n + 1, n + 1)
    ELSE FormatNat(n \div 10) \o SubSeq(Digits, (n % 10) + 1, (n % 10) + 1)

\* the decoded message, or None
\* the match of decode_event (decoder.rs 5-112) on the payload map m and the
\* lower-cased markup c
DecodeMatch(provider, event_id, m, c) ==
    IF provider = "Service Control Manager" THEN
        LET svc == GetOrElse(m, "ServiceName", "param1")
        IN  IF event_id = 7000 THEN "Service failed to start: " \o svc
            ELSE IF event_id = 7001 THEN "Service dependent failed to start: " \o svc
            ELSE IF event_id = 7009 THEN "Service start timed out: " \o svc
            ELSE IF event_id = 7011 THEN "Service hung or timeout occurred: " \o svc
            ELSE IF event_id = 7023 THEN "Service terminated with error: " \o svc
            ELSE IF event_id \in {7031, 7034} THEN "Service terminated unexpectedly: " \o svc
            ELSE IF svc # "" THEN "SCM " \o FormatNat(event_id) \o " " \o svc
            ELSE None
    ELSE IF provider = "Disk" THEN
        LET dev == GetOrElse(m, "DeviceName", "param1")
        IN  IF event_id = 7 THEN "Bad block detected on " \o dev
            ELSE IF event_id = 11 THEN "Disk or controller error on " \o dev
            ELSE IF event_id = 51 THEN "Paging I/O error indicates unstable storage path"
            ELSE IF event_id = 157 THEN "Disk was surprise removed: " \o dev
            ELSE IF "DeviceName" \in DOMAIN m \/ "param1" \in DOMAIN m THEN "Disk " \o dev
            ELSE None
    ELSE IF provider = "DistributedCOM" THEN
        LET clsid == GetOrDefault(m, "CLSID")
            appid == GetOrDefault(m, "APPID")
        IN  IF clsid # "" \/ appid # "" THEN "DCOM CLSID=" \o clsid \o " APPID=" \o appid ELSE None
    ELSE IF provider = "Schannel" THEN
        LET code == GetOrDefault(m, "ErrorCode")
        IN  IF code # "" THEN "Schannel ErrorCode=" \o code ELSE None
    ELSE IF provider = "Microsoft-Windows-WER-SystemErrorReporting" THEN
        LET bug == GetOrDefault(m, "BugcheckCode")
        IN  IF bug # "" THEN "BugCheck " \o bug ELSE None
    ELSE IF provider = "Microsoft-Windows-Ntfs" THEN
        IF event_id = 55 THEN "File system corruption detected (NTFS)"
        ELSE IF event_id = 57 THEN "Delayed write failed (NTFS)"
        ELSE IF event_id = 140 THEN "Failed to flush data to transaction log (NTFS)"
        ELSE None
    ELSE IF provider = "Microsoft-Windows-Kernel-Power" THEN
        IF event_id = 41 THEN "Unexpected shutdown or power loss detected" ELSE None
    ELSE IF provider = "EventLog" THEN
        IF event_id = 6008 THEN "Previous system shutdown was unexpected" ELSE None
    ELSE IF provider = "Microsoft-Windows-WHEA-Logger" THEN
        LET src == GetOrDefault(m, "ErrorSource")
            apic == GetOrElse(m, "ApicId", "ProcessorAPICID")
            comp == GetOrDefault(m, "Component")
            dev == GetOrDefault(m, "DeviceId")
        IN  IF event_id = 18
            THEN "Uncorrected hardware error (" \o (IF apic = "" THEN src ELSE src \o " APIC " \o apic) \o " )"
            ELSE IF event_id = 17
            THEN "Corrected hardware error (" \o (IF comp = "" THEN dev ELSE comp) \o ")"
            ELSE IF event_id \in {19, 20} THEN "Hardware error reported by WHEA (" \o src \o ")"
            ELSE None
    ELSE IF provider = "Display" THEN
        IF event_id = 4101 THEN "Display driver stopped responding and recovered" ELSE None
    ELSE IF provider = "volmgr" THEN
        IF contains(c, "failed to flush data to the transaction log")
        THEN "Volume manager flush failure - potential corruption" ELSE None
    ELSE IF provider = "volsnap" THEN
        IF contains(c, "shadow copies of volume") /\ contains(c, "were aborted")
        THEN "Shadow copies aborted - may indicate underlying disk issues" ELSE None
    ELSE IF provider = "Microsoft-Windows-DNS-Client" THEN
        IF event_id = 1014
        THEN LET q == GetOrDefault(m, "QueryName")
             IN  IF q = "" THEN "DNS name resolution failure" ELSE "DNS name resolution failure: " \o q
        ELSE None
    ELSE None

decode_event(provider, event_id, xml) ==
    DecodeMatch(provider, event_id, event_data_pairs_or_fallback(xml), to_lowercase(xml))

(***************************************************************************)
(* main.rs: normalisation of one record                                    *)
(***************************************************************************)
\* the text between the first start and the next end after it, or None
extract_between(hay, start, end) ==
    LET s == FindFrom(hay, start, 1)
    IN  IF s = 0 THEN None
        ELSE LET e == FindFrom(hay, end, s + Len(start))
             IN  IF e = 0 THEN None ELSE SubSeq(hay, s + Len(start), e - 1)

\* s.parse::<u8>().ok(): NoNum stands for a failed parse
parse_u8(s) ==
    LET n == parse_u32(s) IN IF n > 255 THEN NoNum ELSE n

\* s.parse::<u8>().ok().unwrap_or(0)
parse_level(s) ==
    LET n == parse_u8(s) IN IF n < 0 THEN 0 ELSE n

\* main.rs 938-947: the value of attribute attr of the first <tag , or None
extract_attr(xml, tag, attr) ==
    LET open == "<" \o tag \o " "
        s == FindFrom(xml, open, 1)
    IN  IF s = 0 THEN None
        ELSE LET rest == From(xml, s + Len(open))
                 key == attr \o "=\""
                 ks == FindFrom(rest, key, 1)
             IN  IF ks = 0 THEN None
                 ELSE LET after == From(rest, ks + Len(key))
                          ke == FindFrom(after, "\"", 1)
                      IN  IF ke = 0 THEN None ELSE SubSeq(after, 1, ke - 1)

\* the digits of s from position i up to the first character that is none
RECURSIVE DigitsAt(_, _)
DigitsAt(s, i) ==
    IF i > Len(s) \/ IndexIn(SubSeq(s, i, i), Digits, 1) = 0 THEN ""
    ELSE SubSeq(s, i, i) \o DigitsAt(s, i + 1)

\* a two-digit number between lo and hi, or NoNum
TwoDigits(s, lo, hi) ==
    LET n == IF Len(s) = 2 /\ AllIn(s, Digits, 1) THEN ParseDigits(s, 1, 0) ELSE NoNum
    IN  IF n >= lo /\ n <= hi THEN n ELSE NoNum

NoZone == -100

\* the zone at the end of an RFC 3339 text as hours east of UTC, NoZone when
\* it is none: Z, or a whole-hour offset
ZoneHours(z) ==
    IF z = "Z" \/ z = "z" THEN 0
    ELSE IF Len(z) = 6 /\ SubSeq(z, 4, 6) = ":00" /\ TwoDigits(SubSeq(z, 2, 3), 0, 23) # NoNum
    THEN IF SubSeq(z, 1, 1) = "+" THEN TwoDigits(SubSeq(z, 2, 3), 0, 23)
         ELSE IF SubSeq(z, 1, 1) = "-" THEN 0 - TwoDigits(SubSeq(z, 2, 3), 0, 23)
         ELSE NoZone
    ELSE NoZone

\* the date and time "2025-11-DD?HH:MM:SS[.f]" at the head of s, with sep
\* for ?, as <<hours since 2025-11-01T00:00, rest of s>>, or NoPair.  An
\* instant of the model is a whole hour of November 2025.
DateTimeHead(s, sep) ==
    IF Len(s) < 19 THEN NoPair
    ELSE LET day == TwoDigits(SubSeq(s, 9, 10), 1, 30)
             hour == TwoDigits(SubSeq(s, 12, 13), 0, 23)
             frac == IF Len(s) > 20 /\ SubSeq(s, 20, 20) = "." THEN DigitsAt(s, 21) ELSE ""
             used == IF frac = "" THEN 19 ELSE 20 + Len(frac)
         IN  IF /\ SubSeq(s, 1, 8) = "2025-11-" /\ day # NoNum
                /\ SubSeq(s, 11, 11) \in sep /\ hour # NoNum
                /\ SubSeq(s, 14, 14) = ":" /\ TwoDigits(SubSeq(s, 15, 16), 0, 59) # NoNum
                /\ SubSeq(s, 17, 17) = ":" /\ TwoDigits(SubSeq(s, 18, 19), 0, 59) # NoNum
             THEN <<(day - 1) * 24 + hour, From(s, used + 1)>>
             ELSE NoPair

\* the instant of a date and time head and the zone behind it, or NoNum
ZonedInstant(head, zone) ==
    IF head = NoPair \/ zone = NoZone THEN NoNum ELSE head[1] - zone

\* DateTime::parse_from_rfc3339(s).with_timezone(&Utc), or NoNum
Rfc3339Head(head) == ZonedInstant(head, IF head = NoPair THEN NoZone ELSE ZoneHours(head[2]))

parse_from_rfc3339(s) == Rfc3339Head(DateTimeHead(s, {"T", "t"}))

\* NaiveDateTime::parse_from_str(s, "%Y-%m-%d %H:%M:%S%.f") as UTC, or NoNum
NaiveHead(head) == IF head = NoPair \/ head[2] # "" THEN NoNum ELSE head[1]

parse_naive(s) == NaiveHead(DateTimeHead(s, {" "}))

\* s.replace(' ', "T")
RECURSIVE SpacesToT(_)
SpacesToT(s) ==
    LET i == FindFrom(s, " ", 1)
    IN  IF i = 0 THEN s ELSE SubSeq(s, 1, i - 1) \o "T" \o SpacesToT(From(s, i + 1))

\* main.rs 925-926: the text with T for its spaces, and Z behind it unless
\* it ends in Z or holds a +
AltText(replaced) ==
    IF ~ends_with(replaced, "Z") /\ ~contains(replaced, "+") THEN replaced \o "Z" ELSE replaced

\* the first of three parses that succeeded
FirstParsed(first, second, third) ==
    IF first # NoNum THEN first ELSE IF second # NoNum THEN second ELSE third

\* main.rs 923-930: the instant of a creation time text, or NoNum
parse_system_time(s) ==
    FirstParsed(parse_from_rfc3339(s), parse_from_rfc3339(AltText(SpacesToT(s))), parse_naive(s))

\* quick_xml unescape of an attribute value: <<TRUE, text>>, or <<FALSE, "">>
\* for a reference that is none of the five predefined entities (numeric
\* references are not among the model's texts)
RECURSIVE unescape_value(_)
unescape_value(v) ==
    LET amp == FindFrom(v, "&", 1)
        semi == FindFrom(v, ";", amp + 1)
        name == SubSeq(v, amp + 1, semi - 1)
        char == CASE name = "amp" -> "&" [] name = "lt" -> "<" [] name = "gt" -> ">"
                  [] name = "quot" -> "\"" [] name = "apos" -> "'" [] OTHER -> None
        rest == unescape_value(From(v, semi + 1))
    IN  IF amp = 0 THEN <<TRUE, v>>
        ELSE IF semi = 0 \/ char = None \/ ~rest[1] THEN <<FALSE, "">>
        ELSE <<TRUE, SubSeq(v, 1, amp - 1) \o char \o rest[2]>>

\* the value of attribute key in the inside of a start tag, or None
AttrValue(tag, key) ==
    LET k == FindFrom(tag, " " \o key \o "=\"", 1)
    IN  IF k = 0 THEN None
        ELSE LET after == From(tag, k + Len(key) + 3)
                 q == FindFrom(after, "\"", 1)
             IN  IF q = 0 THEN None ELSE SubSeq(after, 1, q - 1)

\* the fields parse_event_xml_qx has bound so far; failed when it returned None
QxStart == [time |-> NoNum, level |-> NoNum, provider |-> "", event_id |-> NoNum, channel |-> "",
            failed |-> FALSE]

QxFailed == [QxStart EXCEPT !.failed = TRUE]

\* a field of the fields bound so far set to a number parsed from a text node,
\* or left as it is when the parse failed
WithNumber(st, field, n) == IF n = NoNum THEN st ELSE [st EXCEPT ![field] = n]

\* main.rs 903-908: a text node, cur being the name of the last start tag
QxText(st, cur, v) ==
    IF v = "" THEN st
    ELSE IF cur = "Level" THEN WithNumber(st, "level", parse_u8(v))
    ELSE IF cur = "EventID" THEN WithNumber(st, "event_id", parse_u32(trim(v)))
    ELSE IF cur = "Channel" THEN [st EXCEPT !.channel = v]
    ELSE st

\* main.rs 888-900: the attribute of a start tag, unescaped as u
QxAttribute(st, name, u) ==
    IF ~u[1] THEN QxFailed
    ELSE IF name = "Provider" THEN [st EXCEPT !.provider = u[2]]
    ELSE WithNumber(st, "time", parse_system_time(u[2]))

\* main.rs 886-902: a start tag named name whose attribute is v, or None
QxStartTag(st, name, v) ==
    IF name \notin {"TimeCreated", "Provider"} \/ v = None THEN st
    ELSE QxAttribute(st, name, unescape_value(v))

\* the attribute parse_event_xml_qx reads of a start tag, or None
QxAttrOf(tag, name) == AttrValue(tag, IF name = "TimeCreated" THEN "SystemTime" ELSE "Name")

\* the reader loop of parse_event_xml_qx (main.rs 884-914): one iteration per
\* XML event.  An element without content written <a/> is an Empty event,
\* which the loop passes over; a syntax error ends the function with None.
\* QxTag handles the tag between lt and gt, the text before it being bound
RECURSIVE QxLoop(_, _, _, _, _)
RECURSIVE QxTag(_, _, _, _, _, _)
QxTag(xml, gt, tag, cur, open, st) ==
    IF starts_with(tag, "/")
    THEN IF open = <<>> \/ open[Len(open)] # trim(From(tag, 2)) THEN QxFailed
         ELSE QxLoop(xml, gt + 1, cur, SubSeq(open, 1, Len(open) - 1), st)
    ELSE IF ends_with(tag, "/") \/ starts_with(tag, "?") \/ starts_with(tag, "!")
    THEN QxLoop(xml, gt + 1, cur, open, st)
    ELSE QxLoop(xml, gt + 1, TagName(tag), Append(open, TagName(tag)),
                QxStartTag(st, TagName(tag), QxAttrOf(tag, TagName(tag))))

\* the text up to the tag at lt, then the tag
QxEvent(xml, pos, lt, gt, cur, open, st) ==
    IF lt = 0 THEN QxText(st, cur, trim(SubSeq(xml, pos, Len(xml))))
    ELSE IF gt = 0 THEN QxFailed
    ELSE QxTag(xml, gt, SubSeq(xml, lt + 1, gt - 1), cur, open, QxText(st, cur, trim(SubSeq(xml, pos, lt - 1))))

QxAt(xml, pos, lt, cur, open, st) ==
    QxEvent(xml, pos, lt, IF lt = 0 THEN 0 ELSE FindFrom(xml, ">", lt), cur, open, st)

QxLoop(xml, pos, cur, open, st) ==
    IF pos > Len(xml) \/ st.failed THEN st
    ELSE QxAt(xml, pos, FindFrom(xml, "<", pos), cur, open, st)

\* main.rs 860, 870: the content of an event
ContentOf(xml, inner) == IF inner = None THEN xml ELSE inner

\* main.rs 916-920: the EventItem of the fields bound by the loop, or NoItem
QxItem(st, xml, channel) ==
    IF st.failed \/ st.time = NoNum THEN NoItem
    ELSE [time |-> st.time,
          level |-> IF st.level = NoNum THEN 0 ELSE st.level,
          channel |-> IF st.channel = "" THEN channel ELSE st.channel,
          provider |-> st.provider,
          event_id |-> IF st.event_id = NoNum THEN 0 ELSE st.event_id,
          content |-> ContentOf(xml, extract_between(xml, "<EventData>", "</EventData>")),
          raw_xml |-> None]

\* main.rs 874-921: an EventItem, or NoItem
parse_event_xml_qx(xml, channel) == QxItem(QxLoop(xml, 1, "", <<>>, QxStart), xml, channel)

\* the text behind the last > of s (main.rs 866)
RECURSIVE AfterLastGt(_)
AfterLastGt(s) ==
    LET i == FindFrom(s, ">", 1) IN IF i = 0 THEN s ELSE AfterLastGt(From(s, i + 1))

\* opt.and_then(parse_system_time)
ParsedTime(opt) == IF opt = None THEN NoNum ELSE parse_system_time(opt)

\* a.or_else(|| b) on parsed times
OrElseTime(first, second) == IF first # NoNum THEN first ELSE second

\* main.rs 863-866: the Level and the EventID of the fallback
FallbackLevel(opt) == IF opt = None THEN 0 ELSE parse_level(opt)

FallbackNumber(n) == IF n = NoNum THEN 0 ELSE n

FallbackEventId(opt) == FallbackNumber(IF opt = None THEN NoNum ELSE parse_u32(trim(AfterLastGt(opt))))

OrText(opt, default) == IF opt = None THEN default ELSE opt

\* main.rs 869-871: the EventItem of the fallback at time t, or NoItem
FallbackItem(t, xml, channel) ==
    IF t = NoNum THEN NoItem
    ELSE [time |-> t,
          level |-> FallbackLevel(extract_between(xml, "<Level>", "</Level>")),
          channel |-> OrText(extract_between(xml, "<Channel>", "</Channel>"), channel),
          provider |-> OrText(extract_attr(xml, "Provider", "Name"), ""),
          event_id |-> FallbackEventId(extract_between(xml, "<EventID", "</EventID>")),
          content |-> ContentOf(xml, extract_between(xml, "<EventData>", "</EventData>")),
          raw_xml |-> None]

\* main.rs 860-871: the extraction from the text when the strict parse gave
\* nothing
ParseFallback(xml, channel) ==
    FallbackItem(OrElseTime(ParsedTime(extract_attr(xml, "TimeCreated", "SystemTime")),
                            ParsedTime(extract_between(xml, "<TimeCreated SystemTime=\"", "\""))),
                 xml, channel)

\* an item, or the other when it is NoItem
OrItem(first, second) == IF first # NoItem THEN first ELSE second

\* the event a record without a creation time would give at the start of the
\* window
UntimedItem(xml, channel) ==
    [time |-> 0, level |-> 0, channel |-> channel, provider |-> "", event_id |-> 0,
     content |-> xml, raw_xml |-> None]

\* parse_event_xml with the start of the window for a missing creation time
parse_event_xml_untimed(xml, channel) ==
    OrItem(OrItem(parse_event_xml_qx(xml, channel), ParseFallback(xml, channel)), UntimedItem(xml, channel))

\* main.rs 858-872: an EventItem, or NoItem
parse_event_xml(xml, channel) ==
    OrItem(parse_event_xml_qx(xml, channel), ParseFallback(xml, channel))

\* main.rs 576-579: normalise, replace the content by the decoded message and
\* keep the raw payload (args.emit_xml)
SetContent(item, msg) == IF msg # None THEN [item EXCEPT !.content = msg] ELSE item

Decoded(item, xml) ==
    IF item = NoItem THEN NoItem
    ELSE [SetContent(item, decode_event(item.provider, item.event_id, xml)) EXCEPT !.raw_xml = xml]

NormalizeAndDecode(xml, channel) == Decoded(parse_event_xml(xml, channel), xml)

\* pass_level with no level flag given: levels 1..3
pass_level(level) == level >= 1 /\ level <= 3

(***************************************************************************)
(* hints.rs                                                                *)
(***************************************************************************)
\* the accumulator of generate_hints: a function from the keys
\* <<category, severity, message>> to NoviceHint records
EmptyAcc == EmptyMap

\* evidence is an Option<String>: None, or Some(ev) given as ev
push_hint(acc, category, severity, message, evidence) ==
    LET key == <<category, severity, message>>
        entry == IF key \in DOMAIN acc THEN acc[key]
                 ELSE [category |-> category, severity |-> severity, message |-> message,
                       evidence |-> <<>>, count |-> 0, probability |-> 0]
        entry1 == [entry EXCEPT !.count = @ + 1]
        entry2 == IF evidence # None /\ Len(entry1.evidence) < 3 /\ evidence # ""
                  THEN [entry1 EXCEPT !.evidence = Append(@, evidence)]
                  ELSE entry1
    IN  MapInsert(acc, key, entry2)

\* one call of push_hint, as its arguments
Push(category, severity, message, evidence) ==
    <<[category |-> category, severity |-> severity, message |-> message, evidence |-> evidence]>>

When(cond, pushes) == IF cond THEN pushes ELSE <<>>

\* if s.is_empty() { None } else { Some(s) }
NonEmpty(s) == IF s = "" THEN None ELSE s

\* the arm of provider "Disk" reporting a bad block only when the payload names
\* the device
DiskPushesNamedDevice(id, m) ==
    LET dev == GetOrElse(m, "DeviceName", "param1")
    IN  IF id = 7 THEN When(dev # "", Push("Storage", "high", "Bad block detected on disk", dev))
        ELSE IF id = 11 THEN Push("Storage", "high", "Disk or controller error", dev)
        ELSE IF id = 51 THEN Push("Storage", "medium", "Paging I/O error indicates unstable storage path", None)
        ELSE IF id = 157 THEN Push("Storage", "high", "Disk was surprise removed (connection/port)", dev)
        ELSE <<>>

\* the arm of provider "Disk" (hints.rs 123-142)
DiskPushes(id, m) ==
    LET dev == GetOrElse(m, "DeviceName", "param1")
    IN  IF id = 7 THEN Push("Storage", "high", "Bad block detected on disk", dev)
        ELSE IF id = 11 THEN Push("Storage", "high", "Disk or controller error", dev)
        ELSE IF id = 51 THEN Push("Storage", "medium", "Paging I/O error indicates unstable storage path", None)
        ELSE IF id = 157 THEN Push("Storage", "high", "Disk was surprise removed (connection/port)", dev)
        ELSE <<>>

\* the push_hint calls of the provider match (hints.rs 39-241) for event e,
\* in program order; m is the payload map, cl the lower-cased content
ProviderPushes(e, m, cl, env) ==
    LET p == e.provider
        id == e.event_id
    IN
    IF p = "Application Error" THEN
        When(id = 1000,
             LET app == GetOrDefault(m, "FaultingApplicationName")
                 module == GetOrDefault(m, "FaultingModuleName")
                 ev == IF app # "" THEN app ELSE module
             IN  Push("Application", "high", "Application crash detected", NonEmpty(ev)))
    ELSE IF p \in {"Microsoft-Windows-Kernel-Acpi", "Microsoft-Windows-ACPI", "ACPI", "Microsoft-Windows-Thermal"} THEN
        LET inst == GetOrDefault(m, "DeviceInstanceId")
            cls == IF inst = "" THEN None ELSE classify_instance_id(inst)
            temp == GetOrDefault(m, "CurrentTemperature")
            ev == IF temp = "" THEN inst ELSE temp
        IN  When(contains(cl, "fan"),
                 IF contains(cl, "fail") \/ contains(cl, "stalled") \/ contains(cl, "not detected")
                 THEN Push("Cooling", "high",
                           IF cls # None THEN "CPU/Chassis fan failure detected" \o " [" \o cls \o "]"
                           ELSE "CPU/Chassis fan failure detected",
                           NonEmpty(inst))
                 ELSE IF contains(cl, "rpm") \/ contains(cl, "tachometer")
                 THEN Push("Cooling", "medium", "Fan speed low or unstable", NonEmpty(inst))
                 ELSE Push("Cooling", "medium", "Fan-related event reported", NonEmpty(inst)))
            \o
            When(contains(cl, "thermal zone") \/ contains(cl, "temperature") \/ contains(cl, "overheat") \/ contains(cl, "critical"),
                 Push("Thermal", "medium", "Thermal zone or sensor reports high temperature", NonEmpty(ev)))
    ELSE IF p = "Microsoft-Windows-DNS-Client" THEN
        When(id = 1014 \/ contains(cl, "name resolution") \/ contains(cl, "dns"),
             Push("Network", "medium", "DNS name resolution failure", NonEmpty(GetOrDefault(m, "QueryName"))))
    ELSE IF p \in {"Microsoft-Windows-Time-Service", "W32Time"} THEN
        When(contains(cl, "failed") \/ contains(cl, "no response") \/ contains(cl, "synchronize"),
             Push("System", "medium", "System time synchronization failed", NonEmpty(GetOrDefault(m, "SourceType"))))
    ELSE IF p = "Microsoft-Windows-GroupPolicy" THEN
        When(contains(cl, "failed") \/ contains(cl, "could not apply") \/ contains(cl, "processing aborted"),
             LET dc == GetOrDefault(m, "DCName")
                 gpo == GetOrDefault(m, "GPOID")
                 evidence == IF gpo # "" THEN gpo ELSE dc
             IN  Push("Policy", "medium", "Group Policy processing failure", NonEmpty(evidence)))
    ELSE IF p = "Microsoft-Windows-WHEA-Logger" THEN
        LET src == GetOrDefault(m, "ErrorSource")
            apic == GetOrElse(m, "ApicId", "ProcessorAPICID")
            comp == GetOrDefault(m, "Component")
            devid == GetOrDefault(m, "DeviceId")
            bus == IF "Bus" \in DOMAIN m THEN m["Bus"] ELSE None
            dev == IF "Device" \in DOMAIN m THEN m["Device"] ELSE None
            func == IF "Function" \in DOMAIN m THEN m["Function"] ELSE None
            cls == classify_bdf_platform(env, bus, dev, func)
            bdf == "B:" \o (IF bus = None THEN "" ELSE bus) \o " D:" \o (IF dev = None THEN "" ELSE dev)
                   \o " F:" \o (IF func = None THEN "" ELSE func)
        IN  (IF id = 18
             THEN Push("Hardware", "high", "Uncorrected hardware error detected (machine check)",
                       IF apic = "" THEN src ELSE src \o " APIC " \o apic)
             ELSE IF id = 17
             THEN Push("Hardware", "medium", "Corrected hardware error reported",
                       IF comp = "" THEN devid ELSE comp)
             ELSE IF id \in {19, 20}
             THEN Push("Hardware", "medium", "Hardware error reported by WHEA", src)
             ELSE <<>>)
            \o
            When(cls # None, Push("Hardware", "medium", cls \o " (" \o bdf \o " )", None))
    ELSE IF p \in {"Service Control Manager", "Microsoft-Windows-Services"} THEN
        When(contains(cl, "failed to start") \/ contains(cl, "start pending timed out") \/ contains(cl, "terminated unexpectedly"),
             LET svc == GetOrElse(m, "ServiceName", "param1")
                 msg == IF svc = "" THEN "Service start/termination failure" ELSE "Service failure: " \o svc
                 sev == IF contains(cl, "failed") \/ contains(cl, "terminated") THEN "high" ELSE "medium"
             IN  Push("Services", sev, msg, NonEmpty(svc)))
    ELSE IF p = "Disk" THEN DiskPushes(id, m)
    ELSE IF p = "Microsoft-Windows-Ntfs" THEN
        IF id = 55 THEN Push("Storage", "high", "File system corruption detected (NTFS)", None)
        ELSE IF id = 57 THEN Push("Storage", "high", "Delayed write failed", None)
        ELSE IF id = 140 THEN Push("Storage", "high", "Failed to flush data to transaction log (NTFS)", None)
        ELSE <<>>
    ELSE IF p = "Storport" THEN
        IF id = 129 THEN Push("Storage", "medium", "Reset to device implies storage connectivity issue", None)
        ELSE IF id = 153 THEN Push("Storage", "medium", "I/O operation retried by Storport", None)
        ELSE <<>>
    ELSE IF p = "volmgr" THEN
        When(contains(cl, "failed to flush data to the transaction log"),
             Push("Storage", "high", "Volume manager flush failure - potential corruption", None))
    ELSE IF p = "volsnap" THEN
        When(contains(cl, "shadow copies of volume") /\ contains(cl, "were aborted"),
             Push("Storage", "medium", "Shadow copies aborted - may indicate underlying disk issues", None))
    ELSE IF p \in {"Microsoft-Windows-DiskDiagnostic", "Microsoft-Windows-DiskDiagnosticDataCollector"} THEN
        LET reason == GetOrDefault(m, "Reason")
            degraded == GetOrDefault(m, "PercentPerformanceDegraded")
            ev == IF reason # "" THEN reason ELSE degraded
        IN  Push("Storage", "high", "Windows detected disk reliability issue", NonEmpty(ev))
    ELSE IF p = "Microsoft-Windows-Kernel-PnP" THEN
        When(id = 219,
             LET dev == GetOrDefault(m, "DeviceInstanceId")
                 cls == classify_instance_id(dev)
             IN  Push("Peripheral", "medium",
                      IF cls # None THEN "Driver failed to load for a device (Kernel-PnP 219)" \o " [" \o cls \o "]"
                      ELSE "Driver failed to load for a device (Kernel-PnP 219)",
                      NonEmpty(dev)))
    ELSE IF p = "Microsoft-Windows-UserPnp" THEN
        When(id = 2003 \/ contains(cl, "driver install failed") \/ contains(cl, "device install failed"),
             LET dev == GetOrElse(m, "DeviceInstanceID", "DeviceInstanceId")
                 cls == IF dev = "" THEN None ELSE classify_instance_id(dev)
             IN  Push("Peripheral", "medium",
                      IF cls # None THEN "Device installation failed" \o " [" \o cls \o "]"
                      ELSE "Device installation failed",
                      NonEmpty(dev)))
    ELSE IF p = "Microsoft-Windows-Kernel-Power" THEN
        When(id = 41, Push("Power", "high", "Unexpected shutdown or power loss detected", None))
    ELSE IF p \in {"Microsoft-Windows-EventLog", "EventLog"} THEN
        When(id = 6008, Push("Power", "high", "Previous system shutdown was unexpected", None))
    ELSE IF p = "Microsoft-Windows-Kernel-Processor-Power" THEN
        When(id = 37, Push("Thermal", "medium", "CPU frequency limited by firmware (thermal/power)", None))
    ELSE IF p = "Display" THEN
        When(id = 4101, Push("GPU", "medium", "Display driver stopped responding and recovered", None))
    ELSE IF p = "Microsoft-Windows-DxgKrnl" THEN
        When(id = 2 \/ id = 3, Push("GPU", "medium", "Video scheduler or graphics kernel reported a fault", None))
    ELSE IF p \in {"nvlddmkm", "amdkmdag"} THEN
        Push("GPU", "medium", "GPU driver timeout or reset detected", None)
    ELSE IF p \in {"USBHUB", "USBHUB3", "USBXHCI", "usbhub", "usbstor", "USB"} THEN
        When(contains(cl, "enumeration failed") \/ contains(cl, "descriptor request failed") \/ contains(cl, "port reset failed"),
             Push("Peripheral", "medium", "USB device enumeration or port failure", None))
    ELSE IF p = "cdrom" THEN
        When(id = 11 \/ contains(cl, "controller error"),
             Push("Storage", "medium", "CD/DVD device or controller error", None))
    ELSE IF p \in {"Netlogon", "NETLOGON"} THEN
        When(contains(cl, "domain controller") \/ contains(cl, "logon failure") \/ contains(cl, "could not establish a secure connection"),
             Push("Network", "medium", "Domain logon or secure channel issue", NonEmpty(GetOrElse(m, "DnsHostName", "DCName"))))
    ELSE IF p = "Microsoft-Windows-MemoryDiagnostics-Results" THEN
        LET errs == GetOrElse(m, "TestResult", "FailureCount")
        IN  When(errs # "" /\ errs # "0", Push("Memory", "high", "Memory diagnostics reported errors", errs))
    ELSE <<>>

\* the push_hint calls of the provider-independent rules (hints.rs 242-281)
CrossCuttingPushes(e, cl) ==
    LET pl == to_lowercase(e.provider)
        id == e.event_id
        smart == smart_hint_from_text(cl)
    IN  When(contains(cl, "access denied") \/ contains(cl, "permission") \/ contains(cl, "privilege"),
             Push("Permissions", "medium", "Access denied or insufficient permissions detected", None))
        \o
        When(e.provider = "DistributedCOM" /\ contains(cl, "do not grant") /\ contains(cl, "permission settings"),
             Push("Permissions", "medium", "DCOM permission misconfiguration", None))
        \o
        When(contains(cl, "dns") \/ contains(cl, "name resolution") \/ contains(cl, "tcp") \/ contains(cl, "connection timed out")
             \/ contains(cl, "reset by peer") \/ contains(cl, "dhcp") \/ contains(cl, "media disconnected"),
             Push("Network", "medium", "Network connectivity or name resolution issue", None))
        \o
        When(contains(cl, "windows update") \/ contains(cl, "wuau") \/ contains(cl, "failed to install update") \/ contains(cl, "download error"),
             Push("Updates", "medium", "Windows Update reported a failure", None))
        \o
        When(contains(cl, "low disk space") \/ contains(cl, "not enough space") \/ contains(cl, "quota exceeded"),
             Push("Storage", "medium", "Low disk space or quota exceeded", None))
        \o
        When(contains(cl, "bugcheck") \/ contains(cl, "stop code"),
             Push("Power", "high", "System crash (BugCheck) indicated", None))
        \o
        When((contains(pl, "iastor") \/ contains(pl, "storahci") \/ contains(pl, "nvme"))
             /\ (contains(cl, "reset to device") \/ contains(cl, "i/o was retried")),
             Push("Storage", "medium", "Storage controller reported resets/retries (path instability)", None))
        \o
        When(contains(pl, "cdrom") /\ (id = 11 \/ contains(cl, "controller error") \/ contains(cl, "device not ready")),
             Push("Storage", "medium", "Optical drive or controller error", None))
        \o
        When(e.provider = "Microsoft-Windows-Diagnostics-Performance",
             IF id = 100 THEN Push("Performance", "medium", "Slow startup detected (Diagnostics-Performance 100)", None)
             ELSE IF id = 200 THEN Push("Performance", "medium", "Slow logon detected (Diagnostics-Performance 200)", None)
             ELSE IF id = 400 THEN Push("Performance", "medium", "Slow resume from standby detected (Diagnostics-Performance 400)", None)
             ELSE <<>>)
        \o
        When(contains(cl, "retry") \/ contains(cl, "reset") \/ contains(cl, "corrupt") \/ contains(cl, "degraded") \/ contains(cl, "unexpected"),
             Push("General", "medium", "System reported error patterns indicating instability", None))
        \o
        When(smart # NoPair, Push("Storage", smart[1], smart[2], None))

\* the loop body with the provider-independent rules as the last arm of the
\* provider match: they run only when no provider rule pushed a hint
EventPushesElse(e, env) ==
    LET m == event_data_pairs_or_fallback(e.content)
        content_lower == to_lowercase(e.content)
    IN  IF ProviderPushes(e, m, content_lower, env) # <<>> THEN ProviderPushes(e, m, content_lower, env)
        ELSE CrossCuttingPushes(e, content_lower)

\* the body of the loop over the events (hints.rs 36-282): every push_hint
\* call made for event e, in program order
EventPushes(e, env) ==
    LET m == event_data_pairs_or_fallback(e.content)
        content_lower == to_lowercase(e.content)
    IN  ProviderPushes(e, m, content_lower, env) \o CrossCuttingPushes(e, content_lower)

(***************************************************************************)
(* rules.rs                                                                *)
(***************************************************************************)
\* regex::Regex::new(rx).is_ok() for the patterns of the model: literal text,
\* or text with an unclosed group, which does not compile
RegexCompiles(rx) == ~contains(rx, "(")

\* re.is_match(text) for a literal pattern
RegexIsMatch(rx, text) == contains(text, rx)

\* a rule that fires when either filter passes
RuleMatchesAnyFilter(r, e) ==
    /\ \/ (r.provider = None \/ e.provider = r.provider)
       \/ (r.event_id = NoNum \/ e.event_id = r.event_id)
    /\ \/ \E i \in 1..Len(r.contains_any) : contains(to_lowercase(e.content), to_lowercase(r.contains_any[i]))
       \/ r.regex # None /\ RegexCompiles(r.regex) /\ RegexIsMatch(r.regex, e.content)

\* a field of a HintRule that is an Option is None (NoNum) when absent;
\* contains_any is a sequence of strings, <<>> standing for an absent list too
RuleMatches(r, e) ==
    /\ (r.provider = None \/ e.provider = r.provider)
    /\ (r.event_id = NoNum \/ e.event_id = r.event_id)
    /\ LET content_lower == to_lowercase(e.content)
           matched == \E i \in 1..Len(r.contains_any) :
                          contains(content_lower, to_lowercase(r.contains_any[i]))
       IN  \/ matched
           \/ r.regex # None /\ RegexCompiles(r.regex) /\ RegexIsMatch(r.regex, e.content)

RuleHint(r) ==
    [category |-> IF r.category = None THEN "General" ELSE r.category,
     severity |-> IF r.severity = None THEN "medium" ELSE r.severity,
     message |-> r.message, evidence |-> <<>>, count |-> 1, probability |-> 50]

(***************************************************************************)
(* perf.rs                                                                 *)
(***************************************************************************)
SigDiskBadBlocks(e) == e.provider = "Disk" /\ e.event_id = 7
SigDiskErrors(e) == e.provider = "Disk" /\ e.event_id \in {11, 51, 157}
SigNtfs(e) == e.provider = "Microsoft-Windows-Ntfs" /\ e.event_id \in {55, 57, 140}
SigStorport(e) == e.provider = "Storport" /\ e.event_id \in {129, 153}
SigWhea(e) == e.provider = "Microsoft-Windows-WHEA-Logger" /\ e.event_id = 18
SigCpu(e) == e.provider = "Microsoft-Windows-Kernel-Processor-Power" /\ e.event_id = 37
SigGpu(e) == (e.provider = "Display" /\ e.event_id = 4101) \/ e.provider = "nvlddmkm" \/ e.provider = "amdkmdag"
SigDns(e) == e.provider = "Microsoft-Windows-DNS-Client" \/ contains(to_lowercase(e.content), "dns")
SigService(e) == e.provider = "Service Control Manager" \/ e.provider = "Microsoft-Windows-Services"
SigDegraded(e) ==
    starts_with(e.provider, "Microsoft-Windows-DiskDiagnostic") /\ contains(e.content, "PercentPerformanceDegraded")

\* the first maximal run of digits of s at or after position i, "" if none
DigitRun(s, i) ==
    LET digits == {k \in i..Len(s) : IndexIn(SubSeq(s, k, k), Digits, 1) > 0}
        first == Least(digits)
        stops == {k \in first..Len(s) : k \notin digits}
    IN  IF digits = {} THEN ""
        ELSE SubSeq(s, first, IF stops = {} THEN Len(s) ELSE Least(stops) - 1)

\* group 1 of "(?i)PercentPerformanceDegraded\D*(\d+)" on text, or None
DegradedCapture(text) ==
    LET at == FindFrom(to_lowercase(text), "percentperformancedegraded", 1)
        run == IF at = 0 THEN "" ELSE DigitRun(text, at + 26)
    IN  IF run = "" THEN None ELSE run

\* m.as_str().parse::<u8>().unwrap_or(0), s being a run of digits
parse_u8_or_0(s) ==
    LET n == IF Len(s) > 9 THEN 256 ELSE ParseDigits(s, 1, 0) IN IF n > 255 THEN 0 ELSE n

\* the options of a run that shape the samples: sample_count, sort_by,
\* sort_order and the two limits, NoNum standing for a limit that is None
SampleOptions(count, by, order, channel_limit, provider_limit) ==
    [sample_count |-> count, sort_by |-> by, sort_order |-> order,
     per_channel_sample_limit |-> channel_limit, per_provider_sample_limit |-> provider_limit]

\* main.rs 65, 196-199, 682: --top 20, --sort-by time, --sort-order desc, no limit
DefaultSampling == SampleOptions(20, "time", "desc", NoNum, NoNum)

\* main.rs 84-111: the time window flags and the last-N options of Args
Args(last10m, last_hour, last_day, last_week, hours, minutes, since_text, until_text, last_n) ==
    [last10m |-> last10m, last_hour |-> last_hour, last_day |-> last_day, last_week |-> last_week,
     hours |-> hours, minutes |-> minutes, since |-> since_text, until |-> until_text,
     last_errors |-> last_n, last_criticals |-> last_n]

\* no time window flag, last_errors and last_criticals at their default of 50
DefaultArgs == Args(FALSE, FALSE, FALSE, FALSE, 0, 0, None, None, 50)

\* main.rs 667 and 841: any_time_flag of main and of compute_since
any_time_flag(a) == a.last10m \/ a.last_hour \/ a.last_day \/ a.last_week \/ a.hours > 0 \/ a.minutes > 0

\* main.rs 839-851; times are whole hours, and an event of a whole hour is
\* within the last m minutes exactly if it is within the last m \div 60 hours
compute_since(a, now) ==
    IF a.since # None /\ parse_system_time(a.since) # NoNum THEN parse_system_time(a.since)
    ELSE IF ~any_time_flag(a) /\ (a.last_errors > 0 \/ a.last_criticals > 0) THEN now - (36500 * 24)
    ELSE IF a.last10m THEN now - (10 \div 60)
    ELSE IF a.last_hour THEN now - 1
    ELSE IF a.last_day THEN now - 24
    ELSE IF a.last_week THEN now - (7 * 24)
    ELSE IF a.hours > 0 THEN now - a.hours
    ELSE IF a.minutes > 0 THEN now - (a.minutes \div 60)
    ELSE now - 1

\* main.rs 853-856
compute_until(a, now) ==
    IF a.until # None /\ parse_system_time(a.until) # NoNum THEN parse_system_time(a.until) ELSE now

(***************************************************************************)
(* Inputs of the runs.                                                     *)
(***************************************************************************)
\* the creation time the log writes for instant t
SystemTimeText(t) ==
    "2025-11-" \o Pad2((t \div 24) + 1) \o "T" \o Pad2(t % 24) \o ":00:00.000000Z"

\* an element without content, written <name attr="value"></name> ("paired",
\* as the log renders it) or <name attr="value"/> ("empty")
Element(style, name, attr, value) ==
    "<" \o name \o " " \o attr \o "=\"" \o value \o "\""
        \o (IF style = "empty" THEN "/>" ELSE "></" \o name \o ">")

\* the markup of a record: the System fields, the Level and TimeCreated
\* elements left out when None, the end tag that closes System, and the
\* payload markup
RecordXml(style, provider, event_id, level, time_text, closing, payload) ==
    "<Event><System>" \o Element(style, "Provider", "Name", provider)
        \o "<EventID>" \o event_id \o "</EventID>"
        \o (IF level = None THEN "" ELSE "<Level>" \o level \o "</Level>")
        \o (IF time_text = None THEN "" ELSE Element(style, "TimeCreated", "SystemTime", time_text))
        \o "<Channel>System</Channel></" \o closing \o ">" \o payload \o "</Event>"

\* a record of the log at instant t
Record(t, level, provider, event_id, payload) ==
    RecordXml("paired", provider, event_id, level, SystemTimeText(t), "System", payload)

\* an EventItem built by a caller
Item(t, level, provider, event_id, content) ==
    [time |-> t, level |-> level, channel |-> "System", provider |-> provider,
     event_id |-> event_id, content |-> content, raw_xml |-> None]

RecDisk7 ==
    Record(1, "2", "Disk", "7", "<EventData><Data Name=\"DeviceName\">PD1</Data></EventData>")
RecVolsnap ==
    Record(2, "3", "volsnap", "36",
           "<EventData><Data Name=\"Text\">The shadow copies of volume C: were aborted</Data></EventData>")
RecNtfs55 ==
    Record(3, "2", "Microsoft-Windows-Ntfs", "55", "<EventData><Data Name=\"DriveName\">C:</Data></EventData>")

ItemDisk7 == Item(4, 2, "Disk", 7, "<EventData><Data Name=\"DeviceName\">PD2</Data></EventData>")
ItemDisk7Param == Item(5, 2, "Disk", 7, "<EventData><Data Name=\"param1\">PD3</Data></EventData>")

HintRecords == {RecDisk7, RecVolsnap, RecNtfs55}
HintItems == {ItemDisk7, ItemDisk7Param}

\* two declarative rules; the pattern of the second does not compile
HintRules ==
    << [provider |-> "Disk", event_id |-> NoNum, contains_any |-> <<"Bad Block", "devicename">>, regex |-> None,
        category |-> "Storage", severity |-> "high", message |-> "Disk reported a bad block"],
       [provider |-> None, event_id |-> 55, contains_any |-> <<>>, regex |-> "(corruption",
        category |-> None, severity |-> None, message |-> "NTFS corruption"] >>

\* a rules file whose first rule carries the category, severity and message
\* of the built-in bad block hint, and whose second rule fires on every
\* event with a payload
MergeRules ==
    << [provider |-> "Disk", event_id |-> 7, contains_any |-> <<"devicename">>, regex |-> None,
        category |-> "Storage", severity |-> "high", message |-> "Bad block detected on disk"],
       [provider |-> None, event_id |-> NoNum, contains_any |-> <<"EventData">>, regex |-> None,
        category |-> None, severity |-> None, message |-> "Payload present"] >>

Window == <<0, 24>>

\* the events of the score: a machine check (35) and a disk degraded by 50
\* percent, or by 10 percent with a DNS mention (5), beside the bad block of
\* RecDisk7 (30)
RecWhea18 ==
    Record(2, "2", "Microsoft-Windows-WHEA-Logger", "18",
           "<EventData><Data Name=\"ErrorSource\">3</Data></EventData>")
RecDegraded50 ==
    Record(3, "3", "Microsoft-Windows-DiskDiagnostic", "1",
           "<EventData><Data Name=\"PercentPerformanceDegraded\">50</Data></EventData>")

ItemDegradedDns ==
    Item(4, 3, "Microsoft-Windows-DiskDiagnostic", 1,
         "<EventData><Data Name=\"PercentPerformanceDegraded\">10</Data><Data Name=\"Reason\">DNS cache volume</Data></EventData>")

PerfRecords == {RecDisk7, RecWhea18, RecDegraded50}
PerfItems == {ItemDegradedDns}

\* events of a provider no rule knows, of each level and on three days; the
\* caller's items lie outside the file mode's filters
RecError == Record(1, "2", "Application Popup", "26", "")
RecWarning == Record(1, "3", "Application Popup", "26", "")
RecCritical == Record(26, "1", "Application Popup", "26", "")

ItemErrorLate == Item(50, 2, "Application Popup", 26, "popup")
ItemInformation == Item(2, 4, "Application Popup", 26, "popup")

TimelineRecords == {RecError, RecWarning, RecCritical}
TimelineItems == {ItemErrorLate, ItemInformation}

\* a window of one day (hourly buckets) and one of three days (daily buckets)
Windows == {Window, <<0, 72>>}

\* payload documents: up to MaxEntries Data entries inside a container element
\* of the Event; an entry is <<name, value>>
PayloadNames == {"DeviceName", "QueryName"}
PayloadValues == {"PD1", "example.com", ""}
Containers == {"EventData", "System", "UserData"}
PayloadEntries == PayloadNames \X PayloadValues
PayloadDocs ==
    [container : Containers, entries : UNION {[1..n -> PayloadEntries] : n \in 0..MaxEntries}]

RenderEntry(entry) == "<Data Name=\"" \o entry[1] \o "\">" \o entry[2] \o "</Data>"

RECURSIVE RenderEntries(_, _)
RenderEntries(entries, i) ==
    IF i > Len(entries) THEN "" ELSE RenderEntry(entries[i]) \o RenderEntries(entries, i + 1)

\* the markup of a payload document
Render(doc) ==
    "<Event><" \o doc.container \o ">" \o RenderEntries(doc.entries, 1)
        \o "</" \o doc.container \o "></Event>"

\* device instance ids: a bus prefix and the rest of the id; the last two
\* suffixes hold a character outside ASCII
InstancePrefixes ==
    {"NVME\\", "nvme\\", "SCSI\\Disk", "Usb\\Vid_", "ACPI\\PNP0C0B", "ACPI\\pnp0c0a",
     "PCI\\", "HDAUDIO\\FUNC_01&", "NVME", ""}
InstanceSuffixes ==
    {"", "DEV123", "VEN_10DE&DEV_1C82", "VEN_8086", "ven_1e49&dev_", "VEN_FFFF&DEV_0001",
     "VEN_ZZZZ&DEV_12G4", "VEN_10D", "DEV_ABCD", "VEN_10DE&DEV_1C8" \o LeadByte \o ContByte,
     "VEN_123" \o LeadByte \o ContByte}
InstanceIds == {prefix \o suffix : prefix \in InstancePrefixes, suffix \in InstanceSuffixes}

\* vendor codes: the 18 of the table, and strings that are none of them
VendorCodes ==
    {"10de", "1002", "8086", "144d", "1bb1", "1987", "1c5c", "1344", "10ec", "14e4", "1b21", "197b",
     "126f", "15b7", "1e0f", "1e49", "1d97", "1022",
     "10DE", "ffff", "0000", "10d", "10dee", "", " 10de", "1e0F", "8087", "nvidia"}

\* override tables: WINDOCTOR_BDF_HINTS unset (None), or up to MaxOverrides
\* entries <<bus, dev, func, label>> written bus:dev:func=label and joined by ;
BdfEntries ==
    {<<"1", "0", "0", "Discrete GPU">>, <<"1", "0", "0", "Second GPU">>,
     <<"0", "31", "0", "LPC bridge">>, <<"2", "5", "1", "Capture card">>}
BdfTables == UNION {[1..n -> BdfEntries] : n \in 0..MaxOverrides}
BdfFields == {None, "0", "1", "2", "5", "31"}

BdfLookups ==
    {a \in [env_set : BOOLEAN, table : BdfTables, bus : BdfFields, dev : BdfFields, func : BdfFields] :
        ~a.env_set => a.table = <<>>}

RenderBdfEntry(entry) == entry[1] \o ":" \o entry[2] \o ":" \o entry[3] \o "=" \o entry[4]

RECURSIVE RenderBdfTable(_, _)
RenderBdfTable(table, i) ==
    IF i > Len(table) THEN ""
    ELSE RenderBdfEntry(table[i]) \o (IF i < Len(table) THEN ";" ELSE "") \o RenderBdfTable(table, i + 1)

\* records as parse_event_xml may be handed them: both renderings, creation
\* times that parse and that do not, Level texts inside and outside a u8, a
\* provider name with an undefined entity, a System element closed by the
\* wrong end tag
TimeTexts ==
    {None, "2025-11-01T05:00:00.000000Z", "2025-11-01 05:00:00", "2025-11-01T05:00:00+01:00",
     "", "yesterday", "2025-13-01T05:00:00Z", "2025-11-01T25:00:00Z"}
LevelTexts == {None, "0", "1", "2", "3", "4", "5", "200", "256", "x", "", "-1"}
RecordShapes ==
    [style : {"paired", "empty"}, time_text : TimeTexts, level : LevelTexts,
     provider : {"Disk", "A&B"}, closing : {"System", "Sys"}]

RenderRecord(shape) ==
    RecordXml(shape.style, shape.provider, "7", shape.level, shape.time_text, shape.closing, "")

\* a log of records with and without a creation time
RecNoTime == RecordXml("paired", "Application Popup", "26", "2", None, "System", "")
RecBadTime == RecordXml("empty", "Application Popup", "26", "2", "yesterday", "System", "")
RecBrokenNoTime == RecordXml("paired", "Application Popup", "26", "2", "", "Sys", "")
RecSpaced == RecordXml("empty", "Application Popup", "26", "3", "2025-11-01 05:00:00", "System", "")

ParseRecords == {RecError, RecSpaced, RecNoTime, RecBadTime, RecBrokenNoTime}

\* declarative rules: each filter set or not, a keyword list, a pattern that
\* compiles ("timeout") or does not ("(bad"), category and severity given
\* or left to their defaults
RuleShapes ==
    {[provider |-> shape.provider, event_id |-> shape.event_id, contains_any |-> shape.contains_any,
      regex |-> shape.regex, category |-> IF shape.labelled THEN "Storage" ELSE None,
      severity |-> IF shape.labelled THEN "high" ELSE None, message |-> "Rule matched"] :
        shape \in [provider : {None, "Disk"}, event_id : {NoNum, 7},
                   contains_any : {<<>>, <<"BAD block">>, <<"zzz", "Timeout">>},
                   regex : {None, "timeout", "(bad"}, labelled : BOOLEAN]}

BrokenRules == {r \in RuleShapes : r.regex = "(bad"}

\* rule files of one rule, or of two rules one of which holds the pattern
\* that does not compile
RuleFiles ==
    {<<r>> : r \in RuleShapes} \cup (BrokenRules \X RuleShapes) \cup (RuleShapes \X BrokenRules)

ItemBadBlock == Item(1, 2, "Disk", 7, "Bad block detected on PD1")
ItemTimeout == Item(2, 2, "Disk", 11, "timeout on port 2")
ItemSnapshot == Item(3, 3, "volsnap", 7, "Timeout and bad BLOCK")

RuleItems == {ItemBadBlock, ItemTimeout, ItemSnapshot}

RuleBatches == UNION {[1..n -> RuleItems] : n \in 0..MaxBatch}

\* calls of decode_event: provider names that are a handler's and that are
\* not, event ids a handler covers and does not, payloads with and without
\* the entries that name a device or a service
DecodeProviders ==
    {"Disk", "disk", "Disk ", "DiskDiagnostic", "Service Control Manager", "service control manager", "SCM",
     "Microsoft-Windows-Ntfs", "Ntfs", "volsnap", "Unknown-Provider", ""}
DecodeEventIds == {7, 9, 55, 7000, 7040}
DecodeEntries == {"DeviceName", "param1", "ServiceName"} \X {"PD1", ""}
DecodeCalls ==
    [provider : DecodeProviders, event_id : DecodeEventIds, container : {"EventData", "UserData"},
     entries : UNION {[1..n -> DecodeEntries] : n \in 0..MaxEntries}]

\* events of two channels and three providers, each with its own sort keys,
\* and the sampling options of a run: every sort key and order, the limits
\* <<per channel, per provider>> None or small enough to bite
ItemSystemDisk == Item(3, 2, "Disk", 7, "E0")
ItemApplicationDcom == [Item(1, 3, "DistributedCOM", 10016, "A0") EXCEPT !.channel = "Application"]
ItemApplicationError ==
    [Item(2, 1, "Application Error", 1000, "Faulting application\nname: app.exe") EXCEPT !.channel = "Application"]

SampleItems == {ItemSystemDisk, ItemApplicationDcom, ItemApplicationError}

SortKeys == {"time", "severity", "provider", "channel", "event_id"}
SortOrders == {"asc", "desc"}
SampleLimits == {<<NoNum, NoNum>>, <<2, NoNum>>, <<NoNum, 1>>, <<2, 1>>, <<1, 2>>}
SamplingOptions ==
    {SampleOptions(count, by, order, limits[1], limits[2]) :
        count \in {2, 20}, by \in SortKeys, order \in SortOrders, limits \in SampleLimits}

\* main.rs 1865-1899: Application Error events of one crash at two times, of
\* the same crash with a trailing blank (same cause, another message), and
\* an event of another provider
ItemCrash ==
    [Item(2, 2, "Application Error", 1000, "Faulting app crash X") EXCEPT !.channel = "Application"]
ItemCrashLater == [ItemCrash EXCEPT !.time = 4]
ItemCrashBlank == [ItemCrash EXCEPT !.content = "Faulting app crash X "]

DedupeItems == {ItemCrash, ItemCrashLater, ItemCrashBlank, ItemSystemDisk}
DedupeOptions ==
    {SampleOptions(count, "time", order, NoNum, NoNum) : count \in {3, 20}, order \in SortOrders}

\* main.rs 1484-1490: the lines of the two exports of the test, a record of
\* the Disk provider in lower case, a record without the three fields and a
\* line that is no JSON; a file that can be read holds up to MaxLines lines
NdLines ==
    {"{\"severity\":\"Error\",\"provider\":\"Disk\",\"event_id\":7}",
     "{\"severity\":\"Warning\",\"provider\":\"DNS\",\"event_id\":1014}",
     "{\"severity\":\"Error\",\"provider\":\"Disk\",\"event_id\":11}",
     "{\"severity\":\"Warning\",\"provider\":\"Svc\",\"event_id\":7000}",
     "{\"severity\":\"critical\",\"provider\":\"disk\",\"event_id\":7}",
     "{\"provider\":7}",
     "not json"}

NdFile(readable, lines) == [readable |-> readable, lines |-> lines]

NdFiles ==
    {NdFile(FALSE, <<>>)} \cup {NdFile(TRUE, lines) : lines \in UNION {[1..n -> NdLines] : n \in 0..MaxLines}}

\* hints.rs 306-316: batches handed to generate_hints: a Disk event 7, a DNS
\* client event 1014 whose content holds "dns" and a SMART word, an event no
\* rule matches, and one only a provider-independent rule matches
ItemDnsFailure ==
    Item(6, 3, "Microsoft-Windows-DNS-Client", 1014,
         "<EventData><Data Name=\"QueryName\">dns.example.com</Data></EventData> uncorrectable")
ItemDenied == Item(8, 2, "Application Popup", 26, "Access denied")

GenerateItems == {ItemDisk7, ItemDnsFailure, ItemInformation, ItemDenied}
GenerateBatches == UNION {[1..n -> GenerateItems] : n \in 0..MaxHintEvents}

\* perf.rs 95-119: batches handed to compute_performance_metrics: an event
\* of each of the nine signals, two disk diagnostic events that carry a
\* percentage, and an event of no signal
ItemDisk51 == Item(1, 2, "Disk", 51, "paging error")
ItemNtfs57 == Item(1, 2, "Microsoft-Windows-Ntfs", 57, "delayed write failed")
ItemStorport129 == Item(1, 3, "Storport", 129, "reset to device")
ItemWhea18 == Item(1, 2, "Microsoft-Windows-WHEA-Logger", 18, "machine check")
ItemCpu37 == Item(1, 3, "Microsoft-Windows-Kernel-Processor-Power", 37, "speed limited by firmware")
ItemGpuReset == Item(1, 2, "nvlddmkm", 14, "driver stopped responding")
ItemServiceFailed == Item(1, 2, "Service Control Manager", 7000, "The service failed to start")
ItemDegraded50 ==
    Item(3, 3, "Microsoft-Windows-DiskDiagnostic", 1,
         "<EventData><Data Name=\"PercentPerformanceDegraded\">50</Data></EventData>")
ItemDegraded10 ==
    Item(4, 3, "Microsoft-Windows-DiskDiagnosticDataCollector", 1,
         "<EventData><Data Name=\"PercentPerformanceDegraded\">10</Data></EventData>")

ScoreItems ==
    {ItemDisk7, ItemDisk51, ItemNtfs57, ItemStorport129, ItemWhea18, ItemCpu37, ItemGpuReset, ItemDnsFailure,
     ItemServiceFailed, ItemDegraded50, ItemDegraded10, ItemInformation}
ScoreBatches == UNION {[1..n -> ScoreItems] : n \in 0..MaxScoreEvents}

\* perf.rs 163-178: batches handed to compute_timeline: events of two hours
\* of a day, of the next day, of the last hour of November, of the first of
\* December and of the first of January, and windows of 24, 47 and 48 hours
\* and of twelve weeks
TimedItem(t, level) == Item(t, level, "Disk", 7, "")
BucketItems ==
    {TimedItem(1, 2), TimedItem(1, 3), TimedItem(1, 1), TimedItem(2, 2), TimedItem(26, 3), TimedItem(719, 2),
     TimedItem(720, 3), TimedItem(1464, 2)}
BucketBatches == UNION {[1..n -> BucketItems] : n \in 0..MaxTimelineEvents}
BucketWindows == {<<0, 24>>, <<0, 47>>, <<0, 48>>, <<0, 2016>>}

\* perf.rs 151-161: hints handed to compute_root_causes, as generate_hints
\* and the rules of a rules file build them
CauseHint(category, severity) ==
    [category |-> category, severity |-> severity, message |-> "m", count |-> 1, evidence |-> <<>>,
     probability |-> 50]
CauseHints ==
    {CauseHint("Storage", "high"), CauseHint("Storage", "medium"), CauseHint("Hardware", "high"),
     CauseHint("Thermal", "medium"), CauseHint("Cooling", "high"), CauseHint("Network", "medium"),
     CauseHint("Policy", "medium"), CauseHint("Permissions", "high")}
CauseBatches == UNION {[1..n -> CauseHints] : n \in 0..MaxCauseHints}

\* the events supplied under MergeRules
MergeItems == {ItemDisk7, ItemDisk7Param, ItemDnsFailure, ItemInformation}

\* main.rs 665-681: a log with two errors, a warning and a critical event of
\* the last two hours and a warning of this hour, read at Now under each
\* time window flag, and without one
Now == 48

RecErrorRecent == Record(47, "2", "Application Popup", "26", "")
RecErrorBefore == Record(46, "2", "Application Popup", "26", "")
RecWarningRecent == Record(47, "3", "Application Popup", "26", "")
RecWarningNow == Record(48, "3", "Application Popup", "26", "")
RecCriticalRecent == Record(47, "1", "Application Popup", "26", "")

LastRecords == {RecErrorRecent, RecErrorBefore, RecWarningRecent, RecWarningNow, RecCriticalRecent}

FlagArgs ==
    {Args(TRUE, FALSE, FALSE, FALSE, 0, 0, None, None, 1), Args(FALSE, TRUE, FALSE, FALSE, 0, 0, None, None, 1),
     Args(FALSE, FALSE, TRUE, FALSE, 0, 0, None, None, 1), Args(FALSE, FALSE, FALSE, TRUE, 0, 0, None, None, 1),
     Args(FALSE, FALSE, FALSE, FALSE, 2, 0, None, None, 1), Args(FALSE, FALSE, FALSE, FALSE, 0, 120, None, None, 1),
     Args(FALSE, FALSE, FALSE, FALSE, 0, 0, SystemTimeText(46), None, 1),
     Args(FALSE, FALSE, FALSE, FALSE, 0, 0, None, SystemTimeText(47), 1)}

LastArgs == FlagArgs \cup {DefaultArgs, Args(FALSE, FALSE, FALSE, FALSE, 0, 0, None, None, 1)}

\* every record, item and override table of the model's runs
AllRecords == HintRecords \cup PerfRecords \cup TimelineRecords \cup ParseRecords \cup LastRecords
SuppliedItems == HintItems \cup PerfItems \cup TimelineItems \cup RuleItems \cup SampleItems \cup DedupeItems
                 \cup GenerateItems \cup ScoreItems
BdfEnvs == {None}
AllRules == {HintRules[j] : j \in 1..Len(HintRules)} \cup RuleShapes \cup {MergeRules[j] : j \in 1..Len(MergeRules)}

(***************************************************************************)
(* The per-event functions are applied to the same few events in every     *)
(* state; their results are tabulated once per distinct event of the       *)
(* inputs above, and the loops over a batch look them up.                  *)
(***************************************************************************)
\* the function f as an explicit table, each value computed once
Tabulate(f) ==
    LET RECURSIVE Over(_)
        Over(R) == IF R = {} THEN EmptyMap
                   ELSE LET x == CHOOSE y \in R : TRUE IN (x :> f[x]) @@ Over(R \ {x})
    IN  Over(DOMAIN f)

NormalizeSystem(r) == NormalizeAndDecode(r, "System")

Normalized == Tabulate([r \in AllRecords |-> NormalizeSystem(r)])

AllItems == SuppliedItems \cup ({Normalized[r] : r \in AllRecords} \ {NoItem})


(***************************************************************************)
(* hints.rs: the pass over a batch                                         *)
(***************************************************************************)
\* the pushes of an event with each push_hint call made twice
RECURSIVE ApplyPushesTwice(_, _, _)
ApplyPushesTwice(acc, pushes, i) ==
    IF i > Len(pushes) THEN acc
    ELSE ApplyPushesTwice(push_hint(push_hint(acc, pushes[i].category, pushes[i].severity, pushes[i].message,
                                              pushes[i].evidence),
                                    pushes[i].category, pushes[i].severity, pushes[i].message, pushes[i].evidence),
                          pushes, i + 1)

RECURSIVE ApplyPushes(_, _, _)
ApplyPushes(acc, pushes, i) ==
    IF i > Len(pushes) THEN acc
    ELSE ApplyPushes(push_hint(acc, pushes[i].category, pushes[i].severity, pushes[i].message, pushes[i].evidence),
                     pushes, i + 1)

EventPushesUnder(env) == Tabulate([e \in AllItems |-> EventPushes(e, env)])

EventPushesOf == Tabulate([env \in BdfEnvs |-> EventPushesUnder(env)])

\* the accumulator after the loop over events[1..n]
RECURSIVE Accumulate(_, _, _)
Accumulate(evs, n, env) ==
    IF n = 0 THEN EmptyAcc
    ELSE ApplyPushes(Accumulate(evs, n - 1, env), EventPushesOf[env][evs[n]], 1)

\* hints.rs 285-289: the probability of a hint from its final count and evidence
\* the probability of a hint as it is when push_hint inserts it: count 1
ProbabilityAtInsert(h) ==
    LET base == IF h.severity = "high" THEN 75 ELSE IF h.severity = "medium" THEN 50 ELSE 25
        evb == IF h.evidence = <<>> THEN 0 ELSE 5
    IN  base + evb

Probability(h) ==
    LET base == IF h.severity = "high" THEN 75 ELSE IF h.severity = "medium" THEN 50 ELSE 25
        bump == IF h.count >= 5 THEN 15 ELSE IF h.count >= 3 THEN 10 ELSE IF h.count >= 2 THEN 5 ELSE 0
        evb == IF h.evidence = <<>> THEN 0 ELSE 5
        sat(x) == IF x > 255 THEN 255 ELSE x
        p == sat(sat(base + bump) + evb)
    IN  IF p < 5 THEN 5 ELSE IF p > 95 THEN 95 ELSE p

\* str::eq_ignore_ascii_case
eq_ignore_ascii_case(a, b) == to_lowercase(a) = to_lowercase(b)

\* the two closures of hints.rs 291-292
IsVolsnapAbort(e) ==
    eq_ignore_ascii_case(e.provider, "volsnap") /\ contains(to_lowercase(e.content), "aborted")

IsNtfs55(e) ==
    eq_ignore_ascii_case(e.provider, "Microsoft-Windows-Ntfs") /\ e.event_id = 55

IsVolsnapAbortOf == Tabulate([e \in AllItems |-> IsVolsnapAbort(e)])

IsNtfs55Of == Tabulate([e \in AllItems |-> IsNtfs55(e)])

has_volsnap_abort(evs) == \E i \in 1..Len(evs) : IsVolsnapAbortOf[evs[i]]

has_ntfs_55(evs) == \E i \in 1..Len(evs) : IsNtfs55Of[evs[i]]

\* hints.rs 291-295: the accumulator once the cross-event rule has run
WithComposite(acc, evs) ==
    IF has_volsnap_abort(evs) /\ has_ntfs_55(evs)
    THEN push_hint(acc, "Storage", "high", "Shadow copies aborted and NTFS corruption detected (sequence)", None)
    ELSE acc

\* every order in which a HashMap with key set S may hand out its entries
RECURSIVE IterationOrders(_)
IterationOrders(S) ==
    IF S = {} THEN {<<>>}
    ELSE UNION {{<<k>> \o rest : rest \in IterationOrders(S \ {k})} : k \in S}

\* insert h behind every element whose count is at least h.count
RECURSIVE InsertByCount(_, _)
InsertByCount(sorted, h) ==
    IF sorted = <<>> THEN <<h>>
    ELSE IF Head(sorted).count >= h.count THEN <<Head(sorted)>> \o InsertByCount(Tail(sorted), h)
    ELSE <<h>> \o sorted

\* out.sort_by(|a, b| b.count.cmp(&a.count)): a stable sort, count descending
RECURSIVE SortByCountDesc(_, _)
SortByCountDesc(out, n) ==
    IF n = 0 THEN <<>> ELSE InsertByCount(SortByCountDesc(out, n - 1), out[n])

\* the returned list without the pass of hints.rs 284-290 over it
generate_hints_out_unscored(acc, order) ==
    LET out == [i \in 1..Len(order) |-> acc[order[i]]]
    IN  SortByCountDesc(out, Len(out))

\* hints.rs 283-297 for one iteration order of the accumulator: out is taken
\* from the accumulator as it is at line 283
generate_hints_out(acc, order) ==
    LET out == [i \in 1..Len(order) |-> [acc[order[i]] EXCEPT !.probability = Probability(acc[order[i]])]]
    IN  SortByCountDesc(out, Len(out))

(***************************************************************************)
(* rules.rs: the pass over a batch                                         *)
(***************************************************************************)
RuleMatchesBy(r) == Tabulate([e \in AllItems |-> RuleMatches(r, e)])

RuleMatchesOf == Tabulate([r \in AllRules |-> RuleMatchesBy(r)])

\* the matches of a rule merged into one hint that counts them
RuleOverEventsMerged(r, evs, i) ==
    LET n == Cardinality({k \in i..Len(evs) : RuleMatchesOf[r][evs[k]]})
    IN  IF n = 0 THEN <<>> ELSE <<[RuleHint(r) EXCEPT !.count = n]>>

RECURSIVE RuleOverEvents(_, _, _)
RuleOverEvents(r, evs, i) ==
    IF i > Len(evs) THEN <<>>
    ELSE (IF RuleMatchesOf[r][evs[i]] THEN <<RuleHint(r)>> ELSE <<>>) \o RuleOverEvents(r, evs, i + 1)

RECURSIVE RulesLoop(_, _, _)
RulesLoop(rules, evs, j) ==
    IF j > Len(rules) THEN <<>>
    ELSE RuleOverEvents(rules[j], evs, 1) \o RulesLoop(rules, evs, j + 1)

\* apply_hint_rules giving up on a rule file that holds a pattern that does
\* not compile
apply_hint_rules_abort(evs, cfg) ==
    IF cfg = None THEN <<>>
    ELSE IF \E j \in 1..Len(cfg) : cfg[j].regex # None /\ ~RegexCompiles(cfg[j].regex) THEN <<>>
    ELSE RulesLoop(cfg, evs, 1)

\* cfg is the hint_rules list of the RulesConfig, or None
apply_hint_rules(evs, cfg) == IF cfg = None THEN <<>> ELSE RulesLoop(cfg, evs, 1)

(***************************************************************************)
(* perf.rs: the aggregates of a batch                                      *)
(***************************************************************************)
\* the signals an event matches, and the percentage it would add
Signals(e) ==
        [bad_blocks |-> SigDiskBadBlocks(e), disk_errors |-> SigDiskErrors(e), ntfs |-> SigNtfs(e),
         storport |-> SigStorport(e), whea |-> SigWhea(e), cpu |-> SigCpu(e), gpu |-> SigGpu(e),
         dns |-> SigDns(e), service |-> SigService(e), degraded |-> SigDegraded(e),
         capture |-> DegradedCapture(e.content)]

SignalsOf == Tabulate([e \in AllItems |-> Signals(e)])

\* events.iter().find(..): the index of the first event with the field, 0 if none
FirstDegraded(sigs) ==
    LET at == {i \in 1..Len(sigs) : sigs[i].degraded}
    IN  IF at = {} THEN 0 ELSE Least(at)

\* the disk diagnostic signal counted like the nine others, with a weight
DegradedValueWeighted(sigs) == 20 * Cardinality({i \in 1..Len(sigs) : sigs[i].degraded})

\* the percentage added by perf.rs 109-116
DegradedValue(sigs) ==
    LET i == FirstDegraded(sigs)
        cap == IF i = 0 THEN None ELSE sigs[i].capture
    IN  IF cap = None THEN 0 ELSE parse_u8_or_0(cap)

\* the signals of each event of the batch
SignalsIn(evs) == [i \in 1..Len(evs) |-> SignalsOf[evs[i]]]

\* events.iter().filter(pred).count() for the predicate of a signal
CountWhere(sigs, signal) == Cardinality({i \in 1..Len(sigs) : sigs[i][signal]})

\* the score before the cap: a u32, which a batch of at most MaxEvents
\* events (at most 35 each, plus at most 255) cannot overflow
RawScore(sigs) ==
      30 * CountWhere(sigs, "bad_blocks")
    + 25 * CountWhere(sigs, "disk_errors")
    + 25 * CountWhere(sigs, "ntfs")
    + 15 * CountWhere(sigs, "storport")
    + 35 * CountWhere(sigs, "whea")
    + 10 * CountWhere(sigs, "cpu")
    + 10 * CountWhere(sigs, "gpu")
    + 5 * CountWhere(sigs, "dns")
    + 10 * CountWhere(sigs, "service")
    + DegradedValue(sigs)

\* a.min(b)
Min(a, b) == IF a < b THEN a ELSE b

\* the score of compute_performance_metrics
compute_performance_metrics(evs) ==
    Min(RawScore(SignalsIn(evs)), 100)

\* an instant is a number of whole hours since 2025-11-01T00:00:00Z, up to
\* the end of January 2026; "%Y-%m-%d"
FormatDay(t) ==
    LET day == t \div 24
    IN  IF day < 30 THEN "2025-11-" \o Pad2(day + 1)
        ELSE IF day < 61 THEN "2025-12-" \o Pad2(day - 29)
        ELSE "2026-01-" \o Pad2(day - 60)
FormatHour(t) == FormatDay(t) \o " " \o Pad2(t % 24) \o ":00"

\* the key with daily buckets only from three whole days on
BucketKeyAfterTwoDays(t, since, until) ==
    LET num_days == (until - since) \div 24
        bucket_hours == IF num_days > 2 THEN 24 ELSE 1
    IN  IF bucket_hours >= 24 THEN FormatDay(t) ELSE FormatHour(t)

\* the key of the bucket of an event (perf.rs 164-173)
BucketKey(t, since, until) ==
    LET num_days == (until - since) \div 24
        bucket_hours == IF num_days >= 2 THEN 24 ELSE 1
    IN  IF bucket_hours >= 24 THEN FormatDay(t) ELSE FormatHour(t)

\* the buckets when an event replaces the entry of its bucket instead of
\* adding to it
RECURSIVE TimelineBucketsOverwriting(_, _, _, _)
TimelineBucketsOverwriting(evs, n, since, until) ==
    IF n = 0 THEN EmptyMap
    ELSE LET b == TimelineBucketsOverwriting(evs, n - 1, since, until)
             key == BucketKey(evs[n].time, since, until)
             new == IF evs[n].level = 2 THEN <<1, 0>>
                    ELSE IF evs[n].level = 3 THEN <<0, 1>>
                    ELSE <<0, 0>>
         IN  MapInsert(b, key, new)

\* the BTreeMap of compute_timeline after the loop: key -> <<errors, warnings>>
RECURSIVE TimelineBuckets(_, _, _, _)
TimelineBuckets(evs, n, since, until) ==
    IF n = 0 THEN EmptyMap
    ELSE LET b == TimelineBuckets(evs, n - 1, since, until)
             key == BucketKey(evs[n].time, since, until)
             old == IF key \in DOMAIN b THEN b[key] ELSE <<0, 0>>
             new == IF evs[n].level = 2 THEN <<old[1] + 1, old[2]>>
                    ELSE IF evs[n].level = 3 THEN <<old[1], old[2] + 1>>
                    ELSE old
         IN  MapInsert(b, key, new)

\* the printable ASCII characters in code order (the grave accent, which no
\* string of the model contains, is left out)
Ascii == " !\"#$%&'()*+,-./0123456789:;<=>?@ABCDEFGHIJKLMNOPQRSTUVWXYZ[\\]^_abcdefghijklmnopqrstuvwxyz{|}~"

CharCode(c) == IndexIn(c, Ascii, 1)

\* a < b in the byte-wise order of String
StrLess(a, b) ==
    LET n == IF Len(a) < Len(b) THEN Len(a) ELSE Len(b)
        diff == {k \in 1..n : SubSeq(a, k, k) # SubSeq(b, k, k)}
    IN  IF diff = {} THEN Len(a) < Len(b)
        ELSE CharCode(SubSeq(a, Least(diff), Least(diff))) < CharCode(SubSeq(b, Least(diff), Least(diff)))

\* the strings of S in ascending order (the iteration order of a BTreeMap)
RECURSIVE Ascending(_)
Ascending(S) ==
    IF S = {} THEN <<>>
    ELSE LET least == CHOOSE k \in S : \A x \in S \ {k} : StrLess(k, x)
         IN  <<least>> \o Ascending(S \ {least})

\* perf.rs 163-178: the buckets <<key, errors, warnings>> in key order
compute_timeline(evs, since, until) ==
    LET b == TimelineBuckets(evs, Len(evs), since, until)
        keys == Ascending(DOMAIN b)
    IN  [i \in 1..Len(keys) |-> <<keys[i], b[keys[i]][1], b[keys[i]][2]>>]

(***************************************************************************)
(* perf.rs: the root causes                                                *)
(***************************************************************************)
\* causes.push(text) when hints.iter().any(pred)
PushIf(causes, any, text) == IF any THEN Append(causes, text) ELSE causes

AnyHint(hints, categories, severities) ==
    \E i \in 1..Len(hints) : hints[i].category \in categories /\ hints[i].severity \in severities

\* Vec::truncate
Truncate(seq, n) == IF Len(seq) > n THEN SubSeq(seq, 1, n) ELSE seq

\* the causes with the thermal one left to the Thermal category alone
compute_root_causes_thermal_only(hints) ==
    LET any == {hints[i].severity : i \in 1..Len(hints)}
        c1 == PushIf(<<>>, AnyHint(hints, {"Storage"}, {"high"}), "Storage subsystem instability or failing disk")
        c2 == PushIf(c1, AnyHint(hints, {"Hardware"}, {"high"}), "Underlying hardware fault (CPU/Memory/Bus)")
        c3 == PushIf(c2, AnyHint(hints, {"Thermal"}, any), "Thermal issues causing throttling and errors")
        c4 == PushIf(c3, AnyHint(hints, {"Network"}, any), "Network/DNS misconfiguration or intermittent connectivity")
        c5 == PushIf(c4, AnyHint(hints, {"Policy", "Permissions"}, any),
                     "Policy/permission misconfiguration impacting services")
        c6 == PushIf(c5, c5 = <<>>, "General system instability indicated by error patterns")
    IN  Truncate(c6, 5)

\* perf.rs 151-161
compute_root_causes(hints) ==
    LET any == {hints[i].severity : i \in 1..Len(hints)}
        c1 == PushIf(<<>>, AnyHint(hints, {"Storage"}, {"high"}), "Storage subsystem instability or failing disk")
        c2 == PushIf(c1, AnyHint(hints, {"Hardware"}, {"high"}), "Underlying hardware fault (CPU/Memory/Bus)")
        c3 == PushIf(c2, AnyHint(hints, {"Thermal", "Cooling"}, any), "Thermal issues causing throttling and errors")
        c4 == PushIf(c3, AnyHint(hints, {"Network"}, any), "Network/DNS misconfiguration or intermittent connectivity")
        c5 == PushIf(c4, AnyHint(hints, {"Policy", "Permissions"}, any),
                     "Policy/permission misconfiguration impacting services")
        c6 == PushIf(c5, c5 = <<>>, "General system instability indicated by error patterns")
    IN  Truncate(c6, 5)

(***************************************************************************)
(* main.rs: build_summary_with_files                                       *)
(***************************************************************************)
\* the grade without the Storage override of main.rs 1090-1092
RiskGradeThresholdsOnly(perf_score, hints) ==
    IF perf_score >= 80 THEN "Critical" ELSE IF perf_score >= 60 THEN "High"
    ELSE IF perf_score >= 40 THEN "Medium" ELSE "Low"

\* main.rs 1088-1092
RiskGrade(perf_score, hints) ==
    LET grade == IF perf_score >= 80 THEN "Critical" ELSE IF perf_score >= 60 THEN "High"
                 ELSE IF perf_score >= 40 THEN "Medium" ELSE "Low"
    IN  IF (\E i \in 1..Len(hints) : hints[i].category = "Storage" /\ hints[i].severity = "high")
           /\ perf_score >= 40
        THEN "High" ELSE grade

\* main.rs 951-955: <<errors, warnings>>
CountErrorsWarnings(evs) ==
    << Cardinality({i \in 1..Len(evs) : evs[i].level = 2}),
       Cardinality({i \in 1..Len(evs) : evs[i].level = 3}) >>

(***************************************************************************)
(* main.rs: the samples of the report                                      *)
(***************************************************************************)
\* main.rs 1015-1026: l is ordered before r
SampleBefore(l, r, by, order) ==
    LET lt == CASE by = "time" -> l.time < r.time
                [] by = "severity" -> l.level < r.level
                [] by = "provider" -> StrLess(l.provider, r.provider)
                [] by = "channel" -> StrLess(l.channel, r.channel)
                [] by = "event_id" -> l.event_id < r.event_id
        gt == CASE by = "time" -> r.time < l.time
                [] by = "severity" -> r.level < l.level
                [] by = "provider" -> StrLess(r.provider, l.provider)
                [] by = "channel" -> StrLess(r.channel, l.channel)
                [] by = "event_id" -> r.event_id < l.event_id
    IN  IF order = "desc" THEN gt ELSE lt

\* insert e behind every element that is not ordered after it
RECURSIVE InsertSample(_, _, _, _)
InsertSample(seq, e, by, order) ==
    IF seq = <<>> THEN <<e>>
    ELSE IF SampleBefore(e, Head(seq), by, order) THEN <<e>> \o seq
    ELSE <<Head(seq)>> \o InsertSample(Tail(seq), e, by, order)

\* samples.sort_by(..): a stable sort
RECURSIVE SortSamples(_, _, _, _)
SortSamples(evs, n, by, order) ==
    IF n = 0 THEN <<>> ELSE InsertSample(SortSamples(evs, n - 1, by, order), evs[n], by, order)

\* main.rs 1033-1041: the loop of the limits; ch_cnt and pr_cnt hold the
\* number of events kept so far per channel and provider, and a limit that
\* is None stands for usize::MAX, which no count reaches
RECURSIVE LimitLoop(_, _, _, _, _)
LimitLoop(seq, i, cl, pl, kept) ==
    IF i > Len(seq) THEN kept
    ELSE LET cc == Cardinality({k \in 1..Len(kept) : kept[k].channel = seq[i].channel})
             pc == Cardinality({k \in 1..Len(kept) : kept[k].provider = seq[i].provider})
         IN  LimitLoop(seq, i + 1, cl, pl,
                       IF (cl = NoNum \/ cc < cl) /\ (pl = NoNum \/ pc < pl) THEN Append(kept, seq[i]) ELSE kept)

\* the samples with the limits left out
limit_samples_unlimited(seq, cl, pl) == seq

\* main.rs 1027-1043
limit_samples(seq, cl, pl) ==
    IF cl # NoNum \/ pl # NoNum THEN LimitLoop(seq, 1, cl, pl, <<>>) ELSE seq

\* s.replace(from, to), from being one character
RECURSIVE replace(_, _, _)
replace(s, from, to) ==
    LET i == FindFrom(s, from, 1)
    IN  IF i = 0 THEN s ELSE SubSeq(s, 1, i - 1) \o to \o replace(From(s, i + 1), from, to)

\* main.rs 1536-1539
event_cause(e) ==
    LET c == trim(e.content)
    IN  IF starts_with(c, "<") \/ contains(c, "<EventData>") THEN e.provider \o " " \o FormatNat(e.event_id)
        ELSE c

\* main.rs 1541
event_message(e) == replace(e.content, "\n", " ")

max_dups == 3

\* main.rs 1058-1074: at most max_dups Application Error samples of one
\* cause and message
RECURSIVE DedupeLoopInclusive(_, _, _)
DedupeLoopInclusive(seq, i, kept) ==
    IF i > Len(seq) THEN kept
    ELSE IF seq[i].provider = "Application Error"
    THEN LET seen == Cardinality({k \in 1..Len(kept) :
                         /\ kept[k].provider = "Application Error"
                         /\ event_cause(kept[k]) = event_cause(seq[i])
                         /\ event_message(kept[k]) = event_message(seq[i])})
         IN  DedupeLoopInclusive(seq, i + 1, IF seen <= max_dups THEN Append(kept, seq[i]) ELSE kept)
    ELSE DedupeLoopInclusive(seq, i + 1, Append(kept, seq[i]))

RECURSIVE DedupeLoop(_, _, _)
DedupeLoop(seq, i, kept) ==
    IF i > Len(seq) THEN kept
    ELSE IF seq[i].provider = "Application Error"
    THEN LET seen == Cardinality({k \in 1..Len(kept) :
                         /\ kept[k].provider = "Application Error"
                         /\ event_cause(kept[k]) = event_cause(seq[i])
                         /\ event_message(kept[k]) = event_message(seq[i])})
         IN  DedupeLoop(seq, i + 1, IF seen < max_dups THEN Append(kept, seq[i]) ELSE kept)
    ELSE DedupeLoop(seq, i + 1, Append(kept, seq[i]))

\* main.rs 1014-1056: the samples sorted, limited, sorted again and truncated
truncated_samples(evs, opts) ==
    LET first == SortSamples(evs, Len(evs), opts.sort_by, opts.sort_order)
        capped == limit_samples(first, opts.per_channel_sample_limit, opts.per_provider_sample_limit)
        again == SortSamples(capped, Len(capped), opts.sort_by, opts.sort_order)
    IN  SubSeq(again, 1, Min(opts.sample_count, Len(again)))

\* main.rs 1014-1074: ReportSummary.samples
build_samples(evs, opts) == DedupeLoop(truncated_samples(evs, opts), 1, <<>>)

(***************************************************************************)
(* main.rs: the last critical and error events                             *)
(***************************************************************************)
RECURSIVE OfLevel(_, _, _)
OfLevel(evs, i, level) ==
    IF i > Len(evs) THEN <<>>
    ELSE IF evs[i].level = level THEN <<evs[i]>> \o OfLevel(evs, i + 1, level)
    ELSE OfLevel(evs, i + 1, level)

\* sort_by(|a, b| b.time.cmp(&a.time)) and truncate(n)
LastOf(seq, n) == SubSeq(SortSamples(seq, Len(seq), "time", "desc"), 1, Min(n, Len(seq)))

\* main.rs 669-677
Combined(crit, err) == SortSamples(crit \o err, Len(crit) + Len(err), "time", "desc")

\* main.rs 666-679: the events handed to build_summary_with_files
select_last(evs, a) ==
    IF ~any_time_flag(a)
    THEN Combined(LastOf(OfLevel(evs, 1, 1), a.last_criticals), LastOf(OfLevel(evs, 1, 2), a.last_errors))
    ELSE evs

(***************************************************************************)
(* main.rs: the comparison of two NDJSON exports                           *)
(***************************************************************************)
\* serde_json::from_str::<Value>(line) on the lines of the exports: an object
\* on one line
IsJson(line) == starts_with(line, "{") /\ ends_with(line, "}")

\* v.get(key).and_then(|x| x.as_str()).unwrap_or("")
JsonString(line, key) == OrText(extract_between(line, "\"" \o key \o "\":\"", "\""), "")

\* v.get(key).and_then(|x| x.as_u64()).unwrap_or(0) as u32
JsonNumberAt(line, i, key) ==
    IF i = 0 THEN 0 ELSE FallbackNumber(parse_u32(DigitsAt(line, i + Len(key) + 3)))

JsonNumber(line, key) == JsonNumberAt(line, FindFrom(line, "\"" \o key \o "\":", 1), key)

\* main.rs 1399-1402
NdRecord(line) ==
    [severity |-> JsonString(line, "severity"), provider |-> JsonString(line, "provider"),
     event_id |-> JsonNumber(line, "event_id")]

NdRecordOf == Tabulate([line \in NdLines |-> NdRecord(line)])

\* main.rs 1396-1405: the records of the lines that parse
RECURSIVE read_ndjson(_, _)
read_ndjson(lines, i) ==
    IF i > Len(lines) THEN <<>>
    ELSE IF IsJson(lines[i]) THEN <<NdRecordOf[lines[i]]>> \o read_ndjson(lines, i + 1)
    ELSE read_ndjson(lines, i + 1)

\* main.rs 1425
cnt(v, sev) == Cardinality({i \in 1..Len(v) : eq_ignore_ascii_case(v[i].severity, sev)})

\* main.rs 1431-1432: HashMap<String, usize> of the lower-cased providers
ProviderCounts(v) ==
    [p \in {to_lowercase(v[i].provider) : i \in 1..Len(v)} |->
        Cardinality({i \in 1..Len(v) : to_lowercase(v[i].provider) = p})]

\* main.rs 1438-1439: HashMap<u32, usize>
IdCounts(v) ==
    [id \in {v[i].event_id : i \in 1..Len(v)} |-> Cardinality({i \in 1..Len(v) : v[i].event_id = id})]

CountOr0(m, k) == IF k \in DOMAIN m THEN m[k] ELSE 0

\* the elements of order that are not in taken
RECURSIVE NotIn(_, _, _)
NotIn(order, i, taken) ==
    IF i > Len(order) THEN <<>>
    ELSE IF order[i] \in taken THEN NotIn(order, i + 1, taken)
    ELSE <<order[i]>> \o NotIn(order, i + 1, taken)

\* <<key, current count - base count>> for the keys of order
RECURSIVE Deltas(_, _, _, _)
Deltas(order, i, bm, cm) ==
    IF i > Len(order) THEN <<>>
    ELSE <<<<order[i], CountOr0(cm, order[i]) - CountOr0(bm, order[i])>>>> \o Deltas(order, i + 1, bm, cm)

RECURSIVE Keep(_, _, _)
Keep(pairs, i, sign) ==
    IF i > Len(pairs) THEN <<>>
    ELSE IF (sign = 0 /\ pairs[i][2] # 0) \/ (sign > 0 /\ pairs[i][2] > 0) \/ (sign < 0 /\ pairs[i][2] < 0)
    THEN <<pairs[i]>> \o Keep(pairs, i + 1, sign)
    ELSE Keep(pairs, i + 1, sign)

\* sort_by on the delta, stable: descending, or ascending
RECURSIVE InsertDelta(_, _, _)
InsertDelta(sorted, x, descending) ==
    IF sorted = <<>> THEN <<x>>
    ELSE IF (descending /\ Head(sorted)[2] >= x[2]) \/ (~descending /\ Head(sorted)[2] <= x[2])
    THEN <<Head(sorted)>> \o InsertDelta(Tail(sorted), x, descending)
    ELSE <<x>> \o sorted

RECURSIVE SortDeltas(_, _, _)
SortDeltas(pairs, n, descending) ==
    IF n = 0 THEN <<>> ELSE InsertDelta(SortDeltas(pairs, n - 1, descending), pairs[n], descending)

\* sort_unstable on u32
RECURSIVE AscendingIds(_)
AscendingIds(S) == IF S = {} THEN <<>> ELSE <<Least(S)>> \o AscendingIds(S \ {Least(S)})

NoComparison == [none |-> TRUE]

\* main.rs 1425-1449 on the records b and c with their maps; provider_order
\* and id_order are the iteration orders of cp and beid
Comparison(b, c, bp, cp, beid, ceid, provider_order, id_order) ==
    [delta_errors |-> (cnt(c, "Error") + cnt(c, "Critical")) - (cnt(b, "Error") + cnt(b, "Critical")),
     delta_warnings |-> cnt(c, "Warning") - cnt(b, "Warning"),
     new_providers |-> NotIn(provider_order, 1, DOMAIN bp),
     increased_event_ids |-> SortDeltas(Keep(Deltas(id_order, 1, beid, ceid), 1, 1),
                                        Len(Keep(Deltas(id_order, 1, beid, ceid), 1, 1)), TRUE),
     decreased_event_ids |-> SortDeltas(Keep(Deltas(id_order, 1, beid, ceid), 1, -1),
                                        Len(Keep(Deltas(id_order, 1, beid, ceid), 1, -1)), FALSE),
     provider_deltas |-> SortDeltas(Keep(Deltas(provider_order, 1, bp, cp), 1, 0),
                                    Len(Keep(Deltas(provider_order, 1, bp, cp), 1, 0)), TRUE),
     removed_providers |-> Ascending(DOMAIN bp \ DOMAIN cp),
     new_event_ids |-> AscendingIds({id \in DOMAIN ceid : \A i \in 1..Len(b) : b[i].event_id # id})]

CompareRecords(b, c, provider_order, id_order) ==
    Comparison(b, c, ProviderCounts(b), ProviderCounts(c), IdCounts(b), IdCounts(c), provider_order, id_order)

\* main.rs 1422-1450: None when one of the files cannot be read
compare_ndjson(base, current, provider_order, id_order) ==
    IF ~base.readable \/ ~current.readable THEN NoComparison
    ELSE CompareRecords(read_ndjson(base.lines, 1), read_ndjson(current.lines, 1), provider_order, id_order)

(***************************************************************************)
(* The program state.  events is the batch collected by main (or built by  *)
(* a caller of build_summary_with_files); the other variables are the      *)
(* inputs of the run and the fields of the ReportSummary.                  *)
(***************************************************************************)
VARIABLES
    events,             \* Vec<EventItem> collected so far
    phase,              \* "collect" until build_summary_with_files has run, then "report"
    since, until,       \* the time window of the run
    rules_cfg,          \* the hint_rules of the rules file, or None
    bdf_env,            \* the value of WINDOCTOR_BDF_HINTS, or None
    hints_acc,          \* the accumulator of generate_hints when it returns
    hints_out,          \* the list returned by generate_hints
    novice_hints,       \* ReportSummary.novice_hints
    errors, warnings,   \* ReportSummary.errors, .warnings
    performance_score,  \* ReportSummary.performance_score
    risk_grade,         \* ReportSummary.risk_grade
    timeline,           \* ReportSummary.timeline
    sampling,           \* sample_count, sort_by, sort_order and the sample limits of the run
    samples,            \* ReportSummary.samples
    scanned,            \* the records read from the log so far; scanned_records is their number
    parsed_events,      \* the number of records parse_event_xml made an event of
    cli_args,           \* the time window flags, last_errors and last_criticals of the run
    call                \* a library function called on its own: its name, arguments, result

vars == <<events, phase, since, until, rules_cfg, bdf_env, hints_acc, hints_out, novice_hints,
          errors, warnings, performance_score, risk_grade, timeline, sampling, samples, scanned,
          parsed_events, cli_args, call>>

inputs == <<since, until, rules_cfg, bdf_env, sampling, cli_args>>
report == <<hints_acc, hints_out, novice_hints, errors, warnings, performance_score, risk_grade, timeline,
            samples>>

\* no library function is called on its own in a run of main
NoCall == [fn |-> "", args |-> <<>>, ret |-> None, done |-> TRUE]

\* the state before the first record is read
StartRun(a, window, cfg, env, opts) ==
    /\ cli_args = a
    /\ events = <<>>
    /\ phase = "collect"
    /\ since = window[1]
    /\ until = window[2]
    /\ rules_cfg = cfg
    /\ bdf_env = env
    /\ hints_acc = EmptyAcc
    /\ hints_out = <<>>
    /\ novice_hints = <<>>
    /\ errors = 0
    /\ warnings = 0
    /\ performance_score = 0
    /\ risk_grade = ""
    /\ timeline = <<>>
    /\ sampling = opts
    /\ samples = <<>>
    /\ scanned = <<>>
    /\ parsed_events = 0
    /\ call = NoCall

\* a run over the hours of a window: --hours with the length of the window
WindowArgs(window) == [DefaultArgs EXCEPT !.hours = window[2] - window[1]]

StartWith(window, cfg, env, opts) == StartRun(WindowArgs(window), window, cfg, env, opts)

\* a run with the sampling options left at their defaults
Start(window, cfg, env) == StartWith(window, cfg, env, DefaultSampling)

\* main.rs 570-583: one record of the log is normalised, decoded, filtered and
\* kept; the loop ends once max_events events are held
Ingest(r) ==
    /\ phase = "collect"
    /\ Len(events) < MaxEvents
    /\ Len(scanned) < MaxRecords
    /\ scanned' = Append(scanned, r)
    /\ \E item \in {Normalized[r]} :
           /\ parsed_events' = IF item # NoItem THEN parsed_events + 1 ELSE parsed_events
           /\ events' = IF item # NoItem /\ item.time >= since /\ item.time <= until /\ pass_level(item.level)
                         THEN Append(events, item)
                         ELSE events
    /\ UNCHANGED <<phase, inputs, report, call>>

\* a caller builds an EventItem itself (hints.rs 306-316, main.rs 1822-1830)
Supply(e) ==
    /\ phase = "collect"
    /\ Len(events) < MaxEvents
    /\ events' = Append(events, e)
    /\ UNCHANGED <<phase, inputs, report, scanned, parsed_events, call>>

\* main.rs 950-1123: build_summary_with_files on a batch
Summarize(batch) ==
    /\ \E acc0 \in {Accumulate(batch, Len(batch), bdf_env)}, ew \in {CountErrorsWarnings(batch)} :
           /\ \E order \in IterationOrders(DOMAIN acc0) :
                   hints_out' = generate_hints_out(acc0, order)
           /\ hints_acc' = WithComposite(acc0, batch)
           /\ novice_hints' = hints_out' \o apply_hint_rules(batch, rules_cfg)
           /\ errors' = ew[1]
           /\ warnings' = ew[2]
           /\ performance_score' = compute_performance_metrics(batch)
           /\ risk_grade' = RiskGrade(performance_score', novice_hints')
           /\ timeline' = compute_timeline(batch, since, until)
           /\ samples' = build_samples(batch, sampling)

\* main.rs 665-685: the collected events are reduced to the last critical and
\* error events unless a time window flag was given, and
\* build_summary_with_files runs on them
BuildSummary ==
    /\ phase = "collect"
    /\ phase' = "report"
    /\ \E batch \in {select_last(events, cli_args)} :
           /\ events' = batch
           /\ Summarize(batch)
    /\ UNCHANGED <<inputs, scanned, parsed_events, call>>

(***************************************************************************)
(* The correlation engine on batches of storage events.                    *)
(***************************************************************************)
Init == Start(Window, HintRules, None)

IngestHint == \E r \in HintRecords : Ingest(r)
SupplyHint == \E e \in HintItems : Supply(e)

Next == IngestHint \/ SupplyHint \/ BuildSummary

Spec == Init /\ [][Next]_vars

(***************************************************************************)
(* The hint list of the report under a rules file whose rules share a key  *)
(* with a built-in hint and with each other.                               *)
(***************************************************************************)
InitMerge == Start(Window, MergeRules, None)

SupplyMerge == \E e \in MergeItems : Supply(e)

NextMerge == SupplyMerge \/ BuildSummary

SpecMerge == InitMerge /\ [][NextMerge]_vars

(***************************************************************************)
(* The score and the risk grade on batches of scored events, without a     *)
(* rules file.                                                             *)
(***************************************************************************)
InitPerf == Start(Window, None, None)

IngestPerf == \E r \in PerfRecords : Ingest(r)
SupplyPerf == \E e \in PerfItems : Supply(e)

NextPerf == IngestPerf \/ SupplyPerf \/ BuildSummary

SpecPerf == InitPerf /\ [][NextPerf]_vars

(***************************************************************************)
(* The timeline on batches of events of every level, under both bucket     *)
(* sizes.                                                                  *)
(***************************************************************************)
InitTimeline == \E window \in Windows : Start(window, None, None)

IngestTimeline == \E r \in TimelineRecords : Ingest(r)
SupplyTimeline == \E e \in TimelineItems : Supply(e)

NextTimeline == IngestTimeline \/ SupplyTimeline \/ BuildSummary

SpecTimeline == InitTimeline /\ [][NextTimeline]_vars

(***************************************************************************)
(* The samples of the report on batches a caller builds, under every sort  *)
(* and with and without the limits (main.rs 1819-1862).                    *)
(***************************************************************************)
InitSamples == \E opts \in SamplingOptions : StartWith(Window, None, None, opts)

SupplySample == \E e \in SampleItems : Supply(e)

NextSamples == SupplySample \/ BuildSummary

SpecSamples == InitSamples /\ [][NextSamples]_vars

(***************************************************************************)
(* The samples of the report on batches of repeated Application Error      *)
(* events (main.rs 1865-1899).                                             *)
(***************************************************************************)
InitDedupe == \E opts \in DedupeOptions : StartWith(Window, None, None, opts)

SupplyDedupe == \E e \in DedupeItems : Supply(e)

NextDedupe == SupplyDedupe \/ BuildSummary

SpecDedupe == InitDedupe /\ [][NextDedupe]_vars

(***************************************************************************)
(* Runs of main at Now under each time window flag and without one         *)
(* (main.rs 665-681).                                                      *)
(***************************************************************************)
InitLast ==
    \E a \in LastArgs :
        StartRun(a, <<compute_since(a, Now), compute_until(a, Now)>>, None, None, DefaultSampling)

IngestLast == \E r \in LastRecords : Ingest(r)

NextLast == IngestLast \/ BuildSummary

SpecLast == InitLast /\ [][NextLast]_vars

(***************************************************************************)
(* The library functions called on their own, as the unit tests call them: *)
(* the call is chosen at the start and the function is applied once.       *)
(***************************************************************************)
\* the pipeline stands still while a library function is called
Idle(fn, args) ==
    /\ events = <<>>
    /\ phase = "library"
    /\ since = Window[1]
    /\ until = Window[2]
    /\ rules_cfg = None
    /\ bdf_env = None
    /\ hints_acc = EmptyAcc
    /\ hints_out = <<>>
    /\ novice_hints = <<>>
    /\ errors = 0
    /\ warnings = 0
    /\ performance_score = 0
    /\ risk_grade = ""
    /\ timeline = <<>>
    /\ sampling = DefaultSampling
    /\ samples = <<>>
    /\ scanned = <<>>
    /\ parsed_events = 0
    /\ cli_args = DefaultArgs
    /\ call = [fn |-> fn, args |-> args, ret |-> None, done |-> FALSE]

pipeline == <<events, phase, inputs, report, scanned, parsed_events>>

Pending(fn) == call.fn = fn /\ ~call.done

\* event_xml.rs 81-93: event_data_pairs_or_fallback on the markup of a document
CallEventDataPairs ==
    /\ Pending("event_data_pairs_or_fallback")
    /\ call' = [call EXCEPT !.ret = event_data_pairs_or_fallback(Render(call.args)), !.done = TRUE]
    /\ UNCHANGED pipeline

InitEventXml == \E doc \in PayloadDocs : Idle("event_data_pairs_or_fallback", doc)

NextEventXml == CallEventDataPairs

SpecEventXml == InitEventXml /\ [][NextEventXml]_vars

\* device_map.rs 156-175: the classifiers of device_map.rs
CallClassifyInstanceId ==
    /\ Pending("classify_instance_id")
    /\ call' = [call EXCEPT !.ret = classify_instance_id(call.args), !.done = TRUE]
    /\ UNCHANGED pipeline

CallClassifyVendorHex ==
    /\ Pending("classify_vendor_hex")
    /\ call' = [call EXCEPT !.ret = classify_vendor_hex(call.args), !.done = TRUE]
    /\ UNCHANGED pipeline

\* the environment variable is unset, or holds the text of the table
CallClassifyBdfPlatform ==
    /\ Pending("classify_bdf_platform")
    /\ LET env == IF call.args.env_set THEN RenderBdfTable(call.args.table, 1) ELSE None
       IN  call' = [call EXCEPT !.ret = classify_bdf_platform(env, call.args.bus, call.args.dev, call.args.func),
                                !.done = TRUE]
    /\ UNCHANGED pipeline

InitDeviceMap ==
    \/ \E id \in InstanceIds : Idle("classify_instance_id", id)
    \/ \E vendor_hex \in VendorCodes : Idle("classify_vendor_hex", vendor_hex)
    \/ \E lookup \in BdfLookups : Idle("classify_bdf_platform", lookup)

NextDeviceMap == CallClassifyInstanceId \/ CallClassifyVendorHex \/ CallClassifyBdfPlatform

SpecDeviceMap == InitDeviceMap /\ [][NextDeviceMap]_vars

(***************************************************************************)
(* generate_hints called on its own on a batch (hints.rs 306-316).         *)
(***************************************************************************)
CallGenerateHints ==
    /\ Pending("generate_hints")
    /\ \E acc0 \in {Accumulate(call.args, Len(call.args), None)} :
           \E order \in IterationOrders(DOMAIN acc0) :
               call' = [call EXCEPT !.ret = generate_hints_out(acc0, order), !.done = TRUE]
    /\ UNCHANGED pipeline

InitGenerate == \E batch \in GenerateBatches : Idle("generate_hints", batch)

NextGenerate == CallGenerateHints

SpecGenerate == InitGenerate /\ [][NextGenerate]_vars

(***************************************************************************)
(* compute_performance_metrics called on its own on a batch.               *)
(***************************************************************************)
CallComputePerformanceMetrics ==
    /\ Pending("compute_performance_metrics")
    /\ call' = [call EXCEPT !.ret = compute_performance_metrics(call.args), !.done = TRUE]
    /\ UNCHANGED pipeline

InitScore == \E batch \in ScoreBatches : Idle("compute_performance_metrics", batch)

NextScore == CallComputePerformanceMetrics

SpecScore == InitScore /\ [][NextScore]_vars

(***************************************************************************)
(* compute_timeline called on its own on a batch and a window.             *)
(***************************************************************************)
CallComputeTimeline ==
    /\ Pending("compute_timeline")
    /\ call' = [call EXCEPT !.ret = compute_timeline(call.args[1], call.args[2], call.args[3]), !.done = TRUE]
    /\ UNCHANGED pipeline

InitBuckets ==
    \E batch \in BucketBatches, window \in BucketWindows :
        Idle("compute_timeline", <<batch, window[1], window[2]>>)

NextBuckets == CallComputeTimeline

SpecBuckets == InitBuckets /\ [][NextBuckets]_vars

(***************************************************************************)
(* compute_root_causes called on its own on a list of hints.               *)
(***************************************************************************)
CallComputeRootCauses ==
    /\ Pending("compute_root_causes")
    /\ call' = [call EXCEPT !.ret = compute_root_causes(call.args), !.done = TRUE]
    /\ UNCHANGED pipeline

InitCauses == \E hints \in CauseBatches : Idle("compute_root_causes", hints)

NextCauses == CallComputeRootCauses

SpecCauses == InitCauses /\ [][NextCauses]_vars

(***************************************************************************)
(* compare_ndjson called on its own on a base and a current export         *)
(* (main.rs 1480-1500).                                                    *)
(***************************************************************************)
CallCompareNdjson ==
    /\ Pending("compare_ndjson")
    /\ \E provider_order \in IterationOrders(DOMAIN ProviderCounts(read_ndjson(call.args.current.lines, 1))),
          id_order \in IterationOrders(DOMAIN IdCounts(read_ndjson(call.args.base.lines, 1))) :
           call' = [call EXCEPT !.ret = compare_ndjson(call.args.base, call.args.current, provider_order, id_order),
                                !.done = TRUE]
    /\ UNCHANGED pipeline

InitCompare == \E base \in NdFiles, current \in NdFiles : Idle("compare_ndjson", [base |-> base, current |-> current])

NextCompare == CallCompareNdjson

SpecCompare == InitCompare /\ [][NextCompare]_vars

(***************************************************************************)
(* parse_event_xml called on its own (main.rs 1765-1783), and the ingest   *)
(* loop on a log that holds records without a creation time.               *)
(***************************************************************************)
CallParseEventXml ==
    /\ Pending("parse_event_xml")
    /\ call' = [call EXCEPT !.ret = parse_event_xml(RenderRecord(call.args), "Fallback"), !.done = TRUE]
    /\ UNCHANGED pipeline

IngestParse == \E r \in ParseRecords : Ingest(r)

InitParse ==
    \/ \E shape \in RecordShapes : Idle("parse_event_xml", shape)
    \/ Start(Window, None, None)

NextParse == CallParseEventXml \/ IngestParse \/ BuildSummary

SpecParse == InitParse /\ [][NextParse]_vars

(***************************************************************************)
(* apply_hint_rules called on its own on a rule file and a batch.          *)
(***************************************************************************)
CallApplyHintRules ==
    /\ Pending("apply_hint_rules")
    /\ call' = [call EXCEPT !.ret = apply_hint_rules(call.args.batch, call.args.rules), !.done = TRUE]
    /\ UNCHANGED pipeline

InitRules == \E rules \in RuleFiles, batch \in RuleBatches : Idle("apply_hint_rules", [rules |-> rules, batch |-> batch])

NextRules == CallApplyHintRules

SpecRules == InitRules /\ [][NextRules]_vars

(***************************************************************************)
(* decode_event called on its own (main.rs 1785-1790).                     *)
(***************************************************************************)
CallDecodeEvent ==
    /\ Pending("decode_event")
    /\ call' = [call EXCEPT !.ret = decode_event(call.args.provider, call.args.event_id, Render(call.args)),
                            !.done = TRUE]
    /\ UNCHANGED pipeline

InitDecoder == \E args \in DecodeCalls : Idle("decode_event", args)

NextDecoder == CallDecodeEvent

SpecDecoder == InitDecoder /\ [][NextDecoder]_vars

(***************************************************************************)
(* Properties.                                                             *)
(***************************************************************************)
reported == phase = "report"

KeyOf(h) == <<h.category, h.severity, h.message>>

CompositeKey == <<"Storage", "high", "Shadow copies aborted and NTFS corruption detected (sequence)">>

\* every push_hint call generate_hints makes on the batch, counted from the
\* calls themselves: the calls of the loop, then the call of line 294
RECURSIVE LoopCalls(_, _)
LoopCalls(evs, env) ==
    IF evs = <<>> THEN <<>> ELSE EventPushesOf[env][Head(evs)] \o LoopCalls(Tail(evs), env)

CallKeys(evs, env) ==
    LET loop == LoopCalls(evs, env)
        keys == [i \in 1..Len(loop) |-> <<loop[i].category, loop[i].severity, loop[i].message>>]
    IN  IF has_volsnap_abort(evs) /\ has_ntfs_55(evs) THEN Append(keys, CompositeKey) ELSE keys

CallsFor(calls, key) == Cardinality({i \in 1..Len(calls) : calls[i] = key})

IsStorageHigh(h) == h.category = "Storage" /\ h.severity = "high"

IsDisk7(e) == e.provider = "Disk" /\ e.event_id = 7

\* C1: the list returned by generate_hints holds exactly one hint for each key
\* push_hint was called for, the hint's count is the number of those calls, and
\* its evidence has at most 3 entries.
C1_OneHintPerKey ==
    reported =>
        LET calls == CallKeys(events, bdf_env)
        IN  /\ \A i \in 1..Len(calls) :
                   /\ Cardinality({j \in 1..Len(hints_out) : KeyOf(hints_out[j]) = calls[i]}) = 1
                   /\ \A j \in 1..Len(hints_out) :
                          KeyOf(hints_out[j]) = calls[i] => hints_out[j].count = CallsFor(calls, calls[i])
            /\ \A j \in 1..Len(hints_out) :
                   /\ \E i \in 1..Len(calls) : calls[i] = KeyOf(hints_out[j])
                   /\ Len(hints_out[j].evidence) <= 3

\* C2: a batch with a volsnap event whose content contains "aborted" and an
\* Ntfs event 55 yields the composite Storage/high hint in the returned list.
C2_CompositeReturned ==
    (reported /\ has_volsnap_abort(events) /\ has_ntfs_55(events))
        => \E j \in 1..Len(hints_out) : KeyOf(hints_out[j]) = CompositeKey

\* the grade of the thresholds alone
ThresholdGrade(score) ==
    IF score >= 80 THEN "Critical" ELSE IF score >= 60 THEN "High"
    ELSE IF score >= 40 THEN "Medium" ELSE "Low"

HasStorageHigh(hints) == \E i \in 1..Len(hints) : IsStorageHigh(hints[i])

\* C3: the grade is Critical from 80, High from 60, Medium from 40, Low below,
\* and a high-severity Storage hint with a score of at least 40 only raises it
\* to at least High: a score of at least 80 is still Critical.
C3_GradeThresholdsOverrideRaises ==
    reported =>
        risk_grade = IF HasStorageHigh(novice_hints) /\ performance_score >= 40
                        /\ ThresholdGrade(performance_score) = "Medium"
                     THEN "High"
                     ELSE ThresholdGrade(performance_score)

\* C4: with a Storage/high hint in the hint list and a score of at least 40,
\* the reported grade is High or Critical.
C4_StorageHighForcesHigh ==
    (reported /\ HasStorageHigh(novice_hints) /\ performance_score >= 40)
        => risk_grade \in {"High", "Critical"}

\* a report with a Storage/high hint whose score alone would grade Medium
C4_Witness ==
    /\ reported
    /\ HasStorageHigh(novice_hints)
    /\ ThresholdGrade(performance_score) = "Medium"
    /\ risk_grade = "High"

\* (category, message) of a is at most that of b
CategoryMessageLeq(a, b) ==
    \/ StrLess(a.category, b.category)
    \/ a.category = b.category /\ (a.message = b.message \/ StrLess(a.message, b.message))

\* C5: the returned list is sorted by count descending, hints of equal count
\* in ascending (category, message) order.
C5_SortedWithTieBreak ==
    reported =>
        \A i \in 1..Len(hints_out) : \A j \in 1..Len(hints_out) :
            i < j => \/ hints_out[i].count > hints_out[j].count
                     \/ hints_out[i].count = hints_out[j].count /\ CategoryMessageLeq(hints_out[i], hints_out[j])

\* the device identifier in the payload of an event: of the raw record when
\* the event came through the pipeline, else of its content
DeviceIdentifier(e) ==
    GetOrElse(event_data_pairs_or_fallback(IF e.raw_xml # None THEN e.raw_xml ELSE e.content),
              "DeviceName", "param1")

DeviceIdentifierOf == Tabulate([e \in AllItems |-> DeviceIdentifier(e)])

InEvidence(h, text) == \E k \in 1..Len(h.evidence) : h.evidence[k] = text

\* C6: for every Disk event 7 of the batch whose payload carries a non-empty
\* device identifier, the returned list has a Storage/high hint whose evidence
\* includes that identifier, for supplied and for pipeline events alike.
C6_Disk7EvidenceHasIdentifier ==
    reported =>
        \A i \in 1..Len(events) :
            (IsDisk7(events[i]) /\ DeviceIdentifierOf[events[i]] # "")
                => \E j \in 1..Len(hints_out) :
                       IsStorageHigh(hints_out[j]) /\ InEvidence(hints_out[j], DeviceIdentifierOf[events[i]])

\* C7: a batch with an event of provider Disk and id 7 yields at least one
\* Storage/high hint, whatever else the batch holds.
C7_Disk7YieldsStorageHigh ==
    (reported /\ \E i \in 1..Len(events) : IsDisk7(events[i]))
        => HasStorageHigh(hints_out)

\* a report on a batch with a decoded Disk event 7 and an event of another
\* provider
C7_Witness ==
    /\ reported
    /\ \E i \in 1..Len(events) : IsDisk7(events[i]) /\ events[i].raw_xml # None
    /\ \E i \in 1..Len(events) : events[i].provider = "volsnap"
    /\ \A i \in 1..Len(events) : IsDisk7(events[i]) => events[i].raw_xml # None
    /\ HasStorageHigh(hints_out)

\* C8: every hint of the report, from generate_hints or from the declarative
\* rules, has a probability from 5 to 95.
C8_ProbabilityInRange ==
    reported =>
        \A i \in 1..Len(novice_hints) :
            novice_hints[i].probability >= 5 /\ novice_hints[i].probability <= 95

\* a report with hints of both sources, one of them at the top of the scale
C8_Witness ==
    /\ reported
    /\ hints_out # <<>>
    /\ Len(novice_hints) > Len(hints_out)
    /\ \E i \in 1..Len(hints_out) : hints_out[i].probability = 90

InsertAt(evs, k, e) == SubSeq(evs, 1, k) \o <<e>> \o SubSeq(evs, k + 1, Len(evs))

CountedSignals ==
    {"bad_blocks", "disk_errors", "ntfs", "storport", "whea", "cpu", "gpu", "dns", "service"}

MatchesSignal(e) == \E signal \in CountedSignals : SignalsOf[e][signal]

PerfEvents == PerfItems \cup {Normalized[r] : r \in PerfRecords}

\* C9: the score never exceeds 100, and a batch with one more event that
\* matches a signal never scores lower than the batch without it.
C9_ScoreCappedAndMonotone ==
    /\ reported => performance_score <= 100
    /\ \A e \in PerfEvents : \A k \in 0..Len(events) :
           MatchesSignal(e)
               => compute_performance_metrics(InsertAt(events, k, e)) >= compute_performance_metrics(events)

RECURSIVE SumOf(_, _)
SumOf(seq, field) == IF seq = <<>> THEN 0 ELSE Head(seq)[field] + SumOf(Tail(seq), field)

CountLevel(evs, level) == Cardinality({i \in 1..Len(evs) : evs[i].level = level})

\* C10: the error counts of the timeline's buckets sum to the number of
\* level-2 events of the batch, the report's errors; the warning counts to
\* the number of level-3 events, the report's warnings.
C10_TimelineSumsMatchTotals ==
    reported =>
        /\ SumOf(timeline, 2) = CountLevel(events, 2)
        /\ SumOf(timeline, 2) = errors
        /\ SumOf(timeline, 3) = CountLevel(events, 3)
        /\ SumOf(timeline, 3) = warnings

\* a report with daily buckets on more than one day, errors sharing a bucket
\* with a warning, and an event that is neither
C10_Witness ==
    /\ reported
    /\ until - since = 72
    /\ Len(timeline) >= 2
    /\ \E i \in 1..Len(timeline) : timeline[i][2] >= 1 /\ timeline[i][3] >= 1
    /\ \E i \in 1..Len(events) : events[i].level \notin {2, 3}
\* the result of a finished call of fn
Returned(fn) == call.fn = fn /\ call.done

\* the map holding exactly the pairs of the entries, a later entry of the
\* same name replacing an earlier one
RECURSIVE PairsOf(_, _)
PairsOf(entries, n) ==
    IF n = 0 THEN EmptyMap ELSE MapInsert(PairsOf(entries, n - 1), entries[n][1], entries[n][2])

SameMap(a, b) == DOMAIN a = DOMAIN b /\ \A k \in DOMAIN a : a[k] = b[k]

\* two entries that carry a value each, under different names
TwoWellFormed(entries) ==
    /\ Len(entries) = 2
    /\ entries[1][1] # entries[2][1]
    /\ entries[1][2] # "" /\ entries[2][2] # ""

\* C11: event_data_pairs_or_fallback returns the strict parser's map whenever
\* that map is non-empty and the fallback scanner's map only when it is
\* empty; two well-formed Data entries inside EventData come back as exactly
\* those two pairs, and entries outside EventData come back through the
\* fallback.
C11_StrictElseFallback ==
    Returned("event_data_pairs_or_fallback") =>
        LET doc == call.args
            strict == event_data_pairs(Render(doc))
        IN  /\ DOMAIN strict # {} => SameMap(call.ret, strict)
            /\ DOMAIN strict = {} => SameMap(call.ret, event_data_pairs_fallback(Render(doc)))
            /\ (doc.container = "EventData" /\ TwoWellFormed(doc.entries))
                   => SameMap(call.ret, PairsOf(doc.entries, 2))
            /\ doc.container # "EventData"
                   => DOMAIN strict = {} /\ SameMap(call.ret, PairsOf(doc.entries, Len(doc.entries)))

\* the strict parser bound one of the entries of an EventData payload and
\* left out the other, which the fallback scanner would have found
C11_Witness ==
    /\ Returned("event_data_pairs_or_fallback")
    /\ call.args.container = "EventData"
    /\ Len(call.args.entries) = 2
    /\ Cardinality(DOMAIN call.ret) = 1
    /\ Cardinality(DOMAIN event_data_pairs_fallback(Render(call.args))) = 2

\* the prefix rules, as <<prefix, label>>
PrefixRules ==
    << <<"nvme\\", "NVMe drive">>, <<"scsi\\disk", "SATA/SAS disk">>, <<"usb\\vid_", "USB device">>,
       <<"acpi\\pnp0c0b", "ACPI fan">>, <<"acpi\\pnp0c0a", "ACPI thermal zone">> >>

HasRulePrefix(id) ==
    \E k \in 1..Len(PrefixRules) : starts_with(to_lowercase(id), PrefixRules[k][1])

\* C12: an id that starts, in any letter case, with the prefix of one of the
\* five prefix rules gets the label of that rule, also when the id holds
\* ven_ and dev_ tokens.
C12_PrefixRulesFirst ==
    Returned("classify_instance_id") =>
        \A k \in 1..Len(PrefixRules) :
            starts_with(to_lowercase(call.args), PrefixRules[k][1]) => call.ret = PrefixRules[k][2]

\* a USB id, its prefix in mixed case, that names an NVIDIA vendor and a device
C12_Witness ==
    /\ Returned("classify_instance_id")
    /\ call.args = "Usb\\Vid_VEN_10DE&DEV_1C82"
    /\ call.ret = "USB device"

\* the 18 vendor codes of the table
KnownVendorCodes ==
    {"10de", "1002", "8086", "144d", "1bb1", "1987", "1c5c", "1344", "10ec", "14e4", "1b21", "197b",
     "126f", "15b7", "1e0f", "1e49", "1d97", "1022"}

\* the four hex digits that follow the first ven_ of the id, or None
VendorToken(id) ==
    LET id_lower == to_lowercase(id)
        at == FindFrom(id_lower, "ven_", 1)
    IN  IF at = 0 \/ Len(id_lower) < at + 7 THEN None
        ELSE IF \A k \in (at + 4)..(at + 7) : contains("0123456789abcdef", SubSeq(id_lower, k, k))
        THEN SubSeq(id_lower, at + 4, at + 7) ELSE None

\* C13: classify_vendor_hex gives a label for the 18 codes of the table only
\* ("10de" gives "NVIDIA GPU"); classify_instance_id gives None for an id that
\* no prefix rule matches and that has no ven_ token of four hex digits or
\* whose vendor code is not in the table.
C13_VendorTableElseNone ==
    /\ Returned("classify_vendor_hex") =>
           /\ call.ret # None <=> call.args \in KnownVendorCodes
           /\ call.args = "10de" => call.ret = "NVIDIA GPU"
    /\ (Returned("classify_instance_id") /\ ~HasRulePrefix(call.args)
           /\ VendorToken(call.args) \notin KnownVendorCodes)
           => call.ret = None

\* the entries of the override table whose triple is the triple asked for
OverrideHits(a) ==
    {i \in 1..Len(a.table) :
        a.env_set /\ a.table[i][1] = a.bus /\ a.table[i][2] = a.dev /\ a.table[i][3] = a.func}

\* C14: classify_bdf_platform returns the label of an override entry whose
\* (bus, dev, func) equals the inputs whenever there is one, whatever
\* classify_bdf says of the triple, and the result of classify_bdf otherwise.
C14_ExactOverrideWins ==
    Returned("classify_bdf_platform") =>
        LET a == call.args
        IN  IF OverrideHits(a) # {}
            THEN \E i \in OverrideHits(a) : call.ret = a.table[i][4]
            ELSE call.ret = classify_bdf(a.bus, a.dev, a.func)

\* an override that contradicts the heuristic, behind an entry for another slot
C14_Witness ==
    /\ Returned("classify_bdf_platform")
    /\ OverrideHits(call.args) = {2}
    /\ classify_bdf(call.args.bus, call.args.dev, call.args.func) = "Likely discrete GPU (PEG root path)"
    /\ call.ret = "Discrete GPU"

\* the creation time texts that name an instant
ParseableTimeTexts ==
    {"2025-11-01T05:00:00.000000Z", "2025-11-01 05:00:00", "2025-11-01T05:00:00+01:00"}

\* the records of the log that hold no creation time that names an instant
TimelessRecords == {RecNoTime, RecBadTime, RecBrokenNoTime}

\* the records read so far that hold a creation time
RECURSIVE TimedOf(_, _)
TimedOf(log, i) ==
    IF i > Len(log) THEN <<>>
    ELSE (IF log[i] \in TimelessRecords THEN <<>> ELSE <<log[i]>>) \o TimedOf(log, i + 1)

\* C15: parse_event_xml returns None for a record in which neither the strict
\* parse nor the fallback extraction finds a creation time that parses; the
\* ingest loop drops just that record: the events collected are those of the
\* other records read, in their order, and only these count as parsed
C15_UntimedRecordDropped ==
    /\ Returned("parse_event_xml") /\ call.args.time_text \notin ParseableTimeTexts
           => call.ret = NoItem
    /\ phase = "collect" =>
           /\ parsed_events = Len(TimedOf(scanned, 1))
           /\ Len(events) = parsed_events
           /\ \A i \in 1..Len(events) : events[i].raw_xml = TimedOf(scanned, 1)[i]

C15_Witness ==
    /\ phase = "collect"
    /\ scanned = <<RecBadTime, RecError, RecBrokenNoTime, RecSpaced>>
    /\ Len(events) = 2

\* C16: the level of every event parse_event_xml returns is one of 0, 1, 2,
\* 3, 4, whatever the Level text of the record
C16_LevelInRange ==
    Returned("parse_event_xml") /\ call.ret # NoItem => call.ret.level \in 0..4

\* the keywords of the rules that occur in a content, letter case apart, and
\* the patterns that match it; "(bad" is no pattern
KeywordHits ==
    {<<"BAD block", "Bad block detected on PD1">>, <<"BAD block", "Timeout and bad BLOCK">>,
     <<"Timeout", "timeout on port 2">>, <<"Timeout", "Timeout and bad BLOCK">>}
PatternHits == {<<"timeout", "timeout on port 2">>}

Fires(r, e) ==
    /\ r.provider # None => e.provider = r.provider
    /\ r.event_id # NoNum => e.event_id = r.event_id
    /\ \/ \E i \in 1..Len(r.contains_any) : <<r.contains_any[i], e.content>> \in KeywordHits
       \/ r.regex # None /\ <<r.regex, e.content>> \in PatternHits

\* one entry per firing, rule by rule and event by event: what the hint of
\* the firing is to hold
RECURSIVE Firings(_, _, _, _)
Firings(rules, batch, j, i) ==
    IF j > Len(rules) THEN <<>>
    ELSE IF i > Len(batch) THEN Firings(rules, batch, j + 1, 1)
    ELSE (IF Fires(rules[j], batch[i])
          THEN <<[category |-> IF rules[j].category = None THEN "General" ELSE rules[j].category,
                  severity |-> IF rules[j].severity = None THEN "medium" ELSE rules[j].severity,
                  message |-> rules[j].message]>>
          ELSE <<>>) \o Firings(rules, batch, j, i + 1)

Labels(hints) ==
    [k \in 1..Len(hints) |->
        [category |-> hints[k].category, severity |-> hints[k].severity, message |-> hints[k].message]]

\* C17: a rule fires for an event exactly when the provider filter (if set)
\* and the event-id filter (if set) pass and a contains_any keyword occurs in
\* the content, letter case apart, or the regex matches it; each firing gives
\* one hint with the rule's category (General by default), severity (medium
\* by default) and message
C17_RuleFiresOnFiltersAndContent ==
    Returned("apply_hint_rules") => Labels(call.ret) = Firings(call.args.rules, call.args.batch, 1, 1)

C17_Witness ==
    /\ Returned("apply_hint_rules")
    /\ Len(call.args.rules) = 1
    /\ call.args.rules[1].provider = "Disk" /\ call.args.rules[1].event_id = 7
    /\ call.args.rules[1].contains_any = <<"BAD block">> /\ call.args.rules[1].regex = "timeout"
    /\ call.args.rules[1].category = None
    /\ call.args.batch = <<ItemTimeout, ItemBadBlock>>
    /\ Labels(call.ret) = <<[category |-> "General", severity |-> "medium", message |-> "Rule matched"]>>

\* the rule file with the patterns that do not compile taken out
WithoutBrokenPatterns(rules) ==
    [j \in 1..Len(rules) |-> IF rules[j].regex = "(bad" THEN [rules[j] EXCEPT !.regex = None] ELSE rules[j]]

HoldsBrokenPattern(rules) == \E j \in 1..Len(rules) : rules[j].regex = "(bad"

\* C18: a rule whose regex does not compile does not end apply_hint_rules:
\* the hints are those of the rule file without that pattern, the rule firing
\* through its contains_any and every other rule running on every event
C18_BrokenPatternSkipped ==
    Returned("apply_hint_rules") /\ HoldsBrokenPattern(call.args.rules)
        => Labels(call.ret) = Firings(WithoutBrokenPatterns(call.args.rules), call.args.batch, 1, 1)

C18_Witness ==
    /\ Returned("apply_hint_rules")
    /\ Len(call.args.rules) = 2
    /\ call.args.rules[1].regex = "(bad" /\ call.args.rules[1].contains_any = <<"BAD block">>
    /\ call.args.rules[2].regex = "timeout" /\ call.args.rules[2].contains_any = <<>>
    /\ call.args.batch = <<ItemBadBlock, ItemTimeout>>
    /\ Len(call.ret) >= 2
    /\ call.ret[1].message = "Rule matched"

\* the provider names decode_event has a handler for
HandlerNames ==
    {"Service Control Manager", "Disk", "DistributedCOM", "Schannel", "Microsoft-Windows-WER-SystemErrorReporting",
     "Microsoft-Windows-Ntfs", "Microsoft-Windows-Kernel-Power", "EventLog", "Microsoft-Windows-WHEA-Logger",
     "Display", "volmgr", "volsnap", "Microsoft-Windows-DNS-Client"}

\* the event ids the Disk and the Service Control Manager handlers cover
CoveredIds(provider) ==
    IF provider = "Disk" THEN {7, 11, 51, 157} ELSE {7000, 7001, 7009, 7011, 7023, 7031, 7034}

\* the payload names a device (Disk) or a service (Service Control Manager)
IdentifierPresent(provider, entries) ==
    \E i \in 1..Len(entries) :
        /\ entries[i][1] \in {IF provider = "Disk" THEN "DeviceName" ELSE "ServiceName", "param1"}
        /\ entries[i][2] # ""

UnknownProviderNone ==
    Returned("decode_event") /\ call.args.provider \notin HandlerNames => call.ret = None

GenericOnlyWithIdentifier ==
    /\ Returned("decode_event")
    /\ call.args.provider \in {"Disk", "Service Control Manager"}
    /\ call.args.event_id \notin CoveredIds(call.args.provider)
    => IF IdentifierPresent(call.args.provider, call.args.entries)
       THEN call.ret = None \/ starts_with(call.ret, IF call.args.provider = "Disk" THEN "Disk " ELSE "SCM ")
       ELSE call.ret = None

\* C19: decode_event returns None for every provider name that is not the
\* exact name of a handler; for a Disk or Service Control Manager event whose
\* id no handler covers it returns the generic message only when the payload
\* names a device or a service, and None otherwise
C19_UnknownProviderAndGenericFallback == UnknownProviderNone /\ GenericOnlyWithIdentifier

\* the number of samples of the report with value v in field f
SamplesOfChannel(v) == Cardinality({k \in 1..Len(samples) : samples[k].channel = v})
SamplesOfProvider(v) == Cardinality({k \in 1..Len(samples) : samples[k].provider = v})

\* C20: in a report built with a per-channel limit c and a per-provider limit
\* p, the samples hold at most c events of any channel and at most p events
\* of any provider, whatever the batch, the sort key and the sort order
C20_SampleLimitsHold ==
    phase = "report" =>
        /\ sampling.per_channel_sample_limit # NoNum =>
               \A k \in 1..Len(events) : SamplesOfChannel(events[k].channel) <= sampling.per_channel_sample_limit
        /\ sampling.per_provider_sample_limit # NoNum =>
               \A k \in 1..Len(events) : SamplesOfProvider(events[k].provider) <= sampling.per_provider_sample_limit

C20_Witness ==
    /\ phase = "report"
    /\ sampling.per_channel_sample_limit = 2 /\ sampling.per_provider_sample_limit = 1
    /\ sampling.sample_count = 20 /\ sampling.sort_by = "severity" /\ sampling.sort_order = "asc"
    /\ events = <<ItemApplicationDcom, ItemApplicationError, ItemApplicationDcom, ItemSystemDisk>>
    /\ samples = <<ItemApplicationError, ItemSystemDisk, ItemApplicationDcom>>

\* The samples of the providers other than Application Error, in order.
RECURSIVE OfOtherProviders(_, _)
OfOtherProviders(seq, i) ==
    IF i > Len(seq) THEN <<>>
    ELSE IF seq[i].provider # "Application Error" THEN <<seq[i]>> \o OfOtherProviders(seq, i + 1)
    ELSE OfOtherProviders(seq, i + 1)

SameCrash(a, b) ==
    /\ a.provider = "Application Error" /\ b.provider = "Application Error"
    /\ event_cause(a) = event_cause(b)
    /\ event_message(a) = event_message(b)

\* C21: in a report the samples hold at most 3 Application Error events of
\* one (cause, message) pair, and every event of another provider that the
\* sorted, limited and truncated list holds is still among the samples, in
\* the same order.
C21_AtMostThreeDuplicates ==
    reported =>
        /\ \A k \in 1..Len(samples) :
               Cardinality({j \in 1..Len(samples) : SameCrash(samples[j], samples[k])}) <= 3
        /\ OfOtherProviders(samples, 1) = OfOtherProviders(truncated_samples(events, sampling), 1)

\* four events of one crash, at two times, are collected and three of them
\* are reported
C21_Witness ==
    /\ reported
    /\ events = <<ItemCrash, ItemCrashLater, ItemCrash, ItemCrash>>
    /\ sampling = SampleOptions(20, "time", "desc", NoNum, NoNum)
    /\ samples = <<ItemCrashLater, ItemCrash, ItemCrash>>
\* The provider names and the event ids that the records of a file hold, as
\* the file spells them.
WrittenProvider ==
    [line \in NdLines |->
        IF contains(line, "\"Disk\"") THEN "Disk" ELSE IF contains(line, "\"DNS\"") THEN "DNS"
        ELSE IF contains(line, "\"Svc\"") THEN "Svc" ELSE IF contains(line, "\"disk\"") THEN "disk" ELSE None]

WrittenId ==
    [line \in NdLines |->
        IF ends_with(line, ":7}") /\ contains(line, "event_id") THEN 7 ELSE IF ends_with(line, ":11}") THEN 11
        ELSE IF ends_with(line, ":1014}") THEN 1014 ELSE IF ends_with(line, ":7000}") THEN 7000 ELSE NoNum]

ProvidersOf(file) == {WrittenProvider[file.lines[i]] : i \in 1..Len(file.lines)} \ {None}
EventIdsOf(file) == {WrittenId[file.lines[i]] : i \in 1..Len(file.lines)} \ {NoNum}

Listed(list) == {list[i] : i \in 1..Len(list)}

\* C22: compare_ndjson lists in new_providers every provider name, as the
\* current file writes it, that no record of the base file holds; in
\* removed_providers every provider name of the base file that the current
\* file does not hold; in new_event_ids every event id of the current file
\* that no base record holds.
C22_CompareListsNewAndRemoved ==
    (Returned("compare_ndjson") /\ call.ret # NoComparison) =>
        /\ (ProvidersOf(call.args.current) \ ProvidersOf(call.args.base)) \subseteq Listed(call.ret.new_providers)
        /\ (ProvidersOf(call.args.base) \ ProvidersOf(call.args.current)) \subseteq Listed(call.ret.removed_providers)
        /\ (EventIdsOf(call.args.current) \ EventIdsOf(call.args.base)) \subseteq Listed(call.ret.new_event_ids)
\* A time window flag as apply_config counts them (main.rs 828).
WindowFlagGiven ==
    \/ cli_args.last10m \/ cli_args.last_hour \/ cli_args.last_day \/ cli_args.last_week
    \/ cli_args.hours > 0 \/ cli_args.minutes > 0
    \/ cli_args.since # None \/ cli_args.until # None

\* C23: when a time window flag is given, the step from the collected
\* events to the report leaves the events as collected: they are not reduced
\* to the last critical and error events, and the warnings stay.
C23_LastSelectionIgnoredUnderWindowFlag ==
    [][(phase = "collect" /\ phase' = "report" /\ WindowFlagGiven) => events' = events]_vars
\* The keys of the provider-keyed rules and of the provider-independent
\* rules that hold of each event of the batches of generate_hints.
ProviderKeys ==
    (ItemDisk7 :> {<<"Storage", "high", "Bad block detected on disk">>})
    @@ (ItemDnsFailure :> {<<"Network", "medium", "DNS name resolution failure">>})
    @@ (ItemInformation :> {})
    @@ (ItemDenied :> {})

CrossCuttingKeys ==
    (ItemDisk7 :> {})
    @@ (ItemDnsFailure :> {<<"Network", "medium", "Network connectivity or name resolution issue">>,
                           <<"Storage", "medium", "SMART attributes suggest media degradation">>})
    @@ (ItemInformation :> {})
    @@ (ItemDenied :> {<<"Permissions", "medium", "Access denied or insufficient permissions detected">>})

MatchedKeys(e) == ProviderKeys[e] \cup CrossCuttingKeys[e]

EventsMatching(batch, key) == Cardinality({k \in 1..Len(batch) : key \in MatchedKeys(batch[k])})

HintOfKey(hints, key) == {i \in 1..Len(hints) : KeyOf(hints[i]) = key}

Clamp(x, lo, hi) == IF x < lo THEN lo ELSE IF x > hi THEN hi ELSE x

SeverityBase(severity) == IF severity = "high" THEN 75 ELSE IF severity = "medium" THEN 50 ELSE 25

CountBump(count) == IF count >= 5 THEN 15 ELSE IF count >= 3 THEN 10 ELSE IF count >= 2 THEN 5 ELSE 0

EvidenceBump(evidence) == IF Len(evidence) > 0 THEN 5 ELSE 0

\* C24: the probability of every hint generate_hints returns is
\* clamp(base + count_bump + evidence_bump, 5, 95), base 75 / 50 / 25 for
\* severity high / medium / other, count_bump 15 / 10 / 5 / 0 for a count
\* from 5 / 3 / 2 / below, evidence_bump 5 for a non-empty evidence list,
\* the count being the hint's final count: the number of events of the
\* whole batch that matched its key.
C24_ProbabilityFormula ==
    Returned("generate_hints") =>
        \A i \in 1..Len(call.ret) :
            /\ call.ret[i].count = EventsMatching(call.args, KeyOf(call.ret[i]))
            /\ call.ret[i].probability =
                   Clamp(SeverityBase(call.ret[i].severity) + CountBump(call.ret[i].count)
                         + EvidenceBump(call.ret[i].evidence), 5, 95)

\* five Disk events 7 give a high hint with evidence at 75 + 15 + 5
C24_Witness ==
    /\ Returned("generate_hints")
    /\ \E i \in 1..Len(call.ret) :
           /\ call.ret[i].severity = "high" /\ call.ret[i].count = 5 /\ call.ret[i].evidence # <<>>
           /\ call.ret[i].probability = 95

\* C26: the provider-independent rules and smart_hint_from_text run on an
\* event whether or not a provider-keyed rule matched it: every key of
\* either kind that holds of an event of the batch has a hint, counted once
\* for each event it holds of (the DNS client event 1014 counts for the DNS
\* failure hint and for the generic Network hint).
C26_CrossCuttingOnEveryEvent ==
    Returned("generate_hints") =>
        \A k \in 1..Len(call.args) : \A key \in MatchedKeys(call.args[k]) :
            \E i \in HintOfKey(call.ret, key) : call.ret[i].count = EventsMatching(call.args, key)

\* two DNS client events next to a Disk event and an event only a
\* provider-independent rule matches: the two Network hints and the SMART
\* hint are counted twice
C26_Witness ==
    /\ Returned("generate_hints")
    /\ call.args = <<ItemDnsFailure, ItemDisk7, ItemDnsFailure, ItemDenied>>
    /\ \E i \in HintOfKey(call.ret, <<"Network", "medium", "DNS name resolution failure">>) :
           call.ret[i].count = 2
    /\ \E i \in HintOfKey(call.ret, <<"Network", "medium", "Network connectivity or name resolution issue">>) :
           call.ret[i].count = 2
    /\ \E i \in HintOfKey(call.ret, <<"Storage", "medium", "SMART attributes suggest media degradation">>) :
           call.ret[i].count = 2
    /\ HintOfKey(call.ret, <<"Permissions", "medium", "Access denied or insufficient permissions detected">>) # {}
\* C30: on a batch of n events every hint generate_hints returns has a
\* count from 1 to n: its key holds of an event of the batch, and no event
\* counts twice for one key.
C30_CountWithinBatch ==
    Returned("generate_hints") =>
        \A i \in 1..Len(call.ret) :
            /\ call.ret[i].count >= 1
            /\ call.ret[i].count <= Len(call.args)
            /\ \E k \in 1..Len(call.args) : KeyOf(call.ret[i]) \in MatchedKeys(call.args[k])
            /\ call.ret[i].count <= EventsMatching(call.args, KeyOf(call.ret[i]))

\* five DNS client events, each matching three keys: three hints of count 5
C30_Witness ==
    /\ Returned("generate_hints")
    /\ Len(call.args) = 5
    /\ Len(call.ret) = 3
    /\ \A i \in 1..3 : call.ret[i].count = 5
\* The events of a batch that satisfy a condition on the provider and id.
Matching(batch, providers, ids) ==
    Cardinality({k \in 1..Len(batch) : batch[k].provider \in providers /\ batch[k].event_id \in ids})

Among(batch, items) == Cardinality({k \in 1..Len(batch) : batch[k] \in items})

\* the sum of weight x matching events over the nine named signals
WeightedSum(batch) ==
      30 * Matching(batch, {"Disk"}, {7})
    + 25 * Matching(batch, {"Disk"}, {11, 51, 157})
    + 25 * Matching(batch, {"Microsoft-Windows-Ntfs"}, {55, 57, 140})
    + 15 * Matching(batch, {"Storport"}, {129, 153})
    + 35 * Matching(batch, {"Microsoft-Windows-WHEA-Logger"}, {18})
    + 10 * Matching(batch, {"Microsoft-Windows-Kernel-Processor-Power"}, {37})
    + 10 * Among(batch, {ItemGpuReset})
    + 5 * Among(batch, {ItemDnsFailure})
    + 10 * Among(batch, {ItemServiceFailed})

\* the percentages the disk diagnostic events of a batch carry
PercentCarried == (ItemDegraded50 :> 50) @@ (ItemDegraded10 :> 10)

Percentages(batch) == {PercentCarried[batch[k]] : k \in {j \in 1..Len(batch) : batch[j] \in DOMAIN PercentCarried}}

\* C25: the score is min(100, weighted sum of the nine signals + the
\* percentage a disk diagnostic event of the batch carries, as it is), and
\* min(100, weighted sum) when no event carries one.
C25_ScoreIsCappedWeightedSum ==
    Returned("compute_performance_metrics") =>
        IF Percentages(call.args) = {} THEN call.ret = Min(100, WeightedSum(call.args))
        ELSE \E percent \in Percentages(call.args) : call.ret = Min(100, WeightedSum(call.args) + percent)

\* a DNS failure, a service failure and a disk 50 percent degraded score
\* 5 + 10 + 50; three machine checks reach the cap
C25_Witness ==
    /\ Returned("compute_performance_metrics")
    /\ call.args = <<ItemDnsFailure, ItemServiceFailed, ItemDegraded50>>
    /\ call.ret = 65
    /\ compute_performance_metrics(<<ItemWhea18, ItemWhea18, ItemWhea18>>) = 100
\* The window spans at least two whole days.
SpansTwoDays(from, to) == to - from >= 2 * 24

\* the day or the hour an event falls in, as a number
Slot(e, daily) == IF daily THEN e.time \div 24 ELSE e.time

\* the i-th slot in chronological order
RECURSIVE NthSlot(_, _)
NthSlot(slots, i) == IF i = 1 THEN Least(slots) ELSE NthSlot(slots \ {Least(slots)}, i - 1)

InSlot(batch, daily, slot, levels) ==
    {k \in 1..Len(batch) : Slot(batch[k], daily) = slot /\ batch[k].level \in levels}

\* C27: daily buckets when the window spans at least two whole days, else
\* hourly ones; one bucket per day or hour that holds an event, counting the
\* errors and warnings of exactly the events of that day or hour under the
\* text of their own timestamp; the keys strictly ascending and the buckets
\* in chronological order.
C27_TimelineBucketsByOwnTime ==
    Returned("compute_timeline") =>
        LET batch == call.args[1]
            daily == SpansTwoDays(call.args[2], call.args[3])
            slots == {Slot(batch[k], daily) : k \in 1..Len(batch)}
        IN  /\ Len(call.ret) = Cardinality(slots)
            /\ \A i \in 1..Len(call.ret) :
                   LET slot == NthSlot(slots, i)
                   IN  /\ \A k \in InSlot(batch, daily, slot, {1, 2, 3}) :
                              call.ret[i][1] = IF daily THEN FormatDay(batch[k].time) ELSE FormatHour(batch[k].time)
                       /\ call.ret[i][2] = Cardinality(InSlot(batch, daily, slot, {2}))
                       /\ call.ret[i][3] = Cardinality(InSlot(batch, daily, slot, {3}))
            /\ \A i \in 1..(Len(call.ret) - 1) : StrLess(call.ret[i][1], call.ret[i + 1][1])

\* a window of exactly 48 hours: the events of hours 1 and 2 share the bucket
\* of their day, before the bucket of the first day of January
C27_Witness ==
    /\ Returned("compute_timeline")
    /\ call.args = <<(<<TimedItem(1464, 2), TimedItem(1, 3), TimedItem(2, 2)>>), 0, 48>>
    /\ call.ret = <<(<<"2025-11-01", 1, 1>>), (<<"2026-01-01", 1, 0>>)>>
    /\ compute_timeline(<<TimedItem(2, 2), TimedItem(1, 3)>>, 0, 47)
           = <<(<<"2025-11-01 01:00", 0, 1>>), (<<"2025-11-01 02:00", 1, 0>>)>>
\* The canned causes in their fixed order, each with the hints that call
\* for it.
CannedCauses ==
    << [text |-> "Storage subsystem instability or failing disk",
        calls |-> {CauseHint("Storage", "high")}],
       [text |-> "Underlying hardware fault (CPU/Memory/Bus)",
        calls |-> {CauseHint("Hardware", "high")}],
       [text |-> "Thermal issues causing throttling and errors",
        calls |-> {CauseHint("Thermal", "medium"), CauseHint("Cooling", "high")}],
       [text |-> "Network/DNS misconfiguration or intermittent connectivity",
        calls |-> {CauseHint("Network", "medium")}],
       [text |-> "Policy/permission misconfiguration impacting services",
        calls |-> {CauseHint("Policy", "medium"), CauseHint("Permissions", "high")}] >>

DefaultCause == "General system instability indicated by error patterns"

Called(hints) == {c \in 1..Len(CannedCauses) : \E i \in 1..Len(hints) : hints[i] \in CannedCauses[c].calls}

\* C28: between 1 and 5 causes; the canned cause of every condition some
\* hint meets and of no other, each once, in the fixed order; the default
\* cause alone exactly when no condition is met.
C28_RootCausesCannedInOrder ==
    Returned("compute_root_causes") =>
        LET called == Called(call.args)
        IN  /\ Len(call.ret) \in 1..5
            /\ IF called = {} THEN call.ret = <<DefaultCause>>
               ELSE /\ Len(call.ret) = Cardinality(called)
                    /\ \A c \in called :
                           call.ret[Cardinality({b \in called : b <= c})] = CannedCauses[c].text

\* five hints that meet the five conditions, handed over in reverse order;
\* a medium storage hint alone gets the default cause
C28_Witness ==
    /\ Returned("compute_root_causes")
    /\ call.args = <<CauseHint("Permissions", "high"), CauseHint("Network", "medium"), CauseHint("Cooling", "high"),
                     CauseHint("Hardware", "high"), CauseHint("Storage", "high")>>
    /\ call.ret = [c \in 1..5 |-> CannedCauses[c].text]
    /\ compute_root_causes(<<CauseHint("Storage", "medium")>>) = <<DefaultCause>>
\* The events each rule of the rules file fires on.
FiresOn == <<{ItemDisk7}, {ItemDisk7, ItemDisk7Param, ItemDnsFailure}>>

\* the hint a match of the j-th rule adds
DeclaredHint(j) ==
    [category |-> IF j = 1 THEN "Storage" ELSE "General", severity |-> IF j = 1 THEN "high" ELSE "medium",
     message |-> IF j = 1 THEN "Bad block detected on disk" ELSE "Payload present",
     count |-> 1, evidence |-> <<>>, probability |-> 50]

MatchesOfRule(j) == {i \in 1..Len(events) : events[i] \in FiresOn[j]}

\* C29: the hint list of the report is the list of the built-in hints
\* followed by one hint of count 1, empty evidence and probability 50 per
\* (rule, matching event) pair; no match is merged into a built-in hint or
\* into another declarative hint of the same key.
C29_RuleHintsAppendedUnmerged ==
    (phase = "report" /\ rules_cfg = MergeRules) =>
        LET built_in == Len(hints_out)
            added == {k \in 1..Len(novice_hints) : k > built_in}
        IN  /\ Len(novice_hints) = built_in + Cardinality(MatchesOfRule(1)) + Cardinality(MatchesOfRule(2))
            /\ SubSeq(novice_hints, 1, built_in) = hints_out
            /\ \A j \in 1..2 : Cardinality({k \in added : novice_hints[k] = DeclaredHint(j)}) = Cardinality(MatchesOfRule(j))

\* two bad blocks: the built-in hint counts 2 and stays first, and the rule
\* of the same key adds two hints of count 1 behind it
C29_Witness ==
    /\ phase = "report"
    /\ rules_cfg = MergeRules
    /\ events = <<ItemDisk7, ItemDisk7>>
    /\ \E k \in 1..Len(hints_out) :
           /\ novice_hints[k].message = "Bad block detected on disk"
           /\ novice_hints[k].count = 2
    /\ SubSeq(novice_hints, Len(hints_out) + 1, Len(novice_hints))
           = <<DeclaredHint(1), DeclaredHint(1), DeclaredHint(2), DeclaredHint(2)>>
====
